---------------------------- MODULE Spec2Model ----------------------------
(***************************************************************************)
(* Room creation and room upgrade of the client API (src/api/client/room.rs):*)
(* create_room_route, upgrade_room_route, default_power_levels_content,    *)
(* room_alias_check and custom_room_id_check, run by concurrent request    *)
(* tasks over the short-ID registry, the per-room state mutex, the room    *)
(* timelines, the alias store and the room directory.                      *)
(*                                                                         *)
(* Strings that the code inspects character by character (local-parts,     *)
(* room ids, aliases) are sequences of one-character strings.  An          *)
(* Option<T> is a set with at most one element.  A JSON object is a        *)
(* function from its keys to its values.                                   *)
(***************************************************************************)
EXTENDS Integers, Sequences, FiniteSets, TLC

(***************************************************************************)
(* Bounds of the model.                                                    *)
(***************************************************************************)
\* longest local-part the validators are applied to
MaxLen == 2
\* longest invite list of a create-room request
MaxInvite == 1
\* longest initial_state list of a create-room request
MaxInitialState == 2

(***************************************************************************)
(* Option and sequence helpers.                                            *)
(***************************************************************************)
None == {}
Some(x) == {x}
Unwrap(o) == CHOOSE x \in o : TRUE

Range(s) == {s[i] : i \in 1..Len(s)}

SeqsUpTo(S, n) == UNION {[1..k -> S] : k \in 0..n}

\* str::contains(pattern) for a literal pattern
Contains(s, p) ==
    \E i \in 0..(Len(s) - Len(p)) : \A j \in 1..Len(p) : s[i + j] = p[j]

(***************************************************************************)
(* Characters and names.                                                   *)
(***************************************************************************)
Whitespace == {" ", "\t"}
Chars == {"a", "b", ":", " "}

\* services.globals.config.server_name
server_name == <<"s">>

Users == {"@alice", "@bob"}

\* RoomVersionId; "custom" stands for a version the server does not know
RoomVersionId == {"1", "10", "11", "custom"}
\* the arm V1 | V2 | ... | V10 of the matches on the room version
LegacyVersions == {"1", "10"}
\* services.globals.supported_room_versions()
supported_room_versions == {"10", "11"}
\* services.globals.default_room_version()
default_room_version == "10"

(***************************************************************************)
(* Identifier validation.  A Result is [ok |-> TRUE, v |-> value] or       *)
(* [ok |-> FALSE, v |-> ErrorKind].                                        *)
(***************************************************************************)
Ok(v) == [ok |-> TRUE, v |-> v]
Err(kind) == [ok |-> FALSE, v |-> kind]

\* RegexSet::is_match: the forbidden-name pattern is a set of literals, and
\* the set matches a string that contains one of them
is_match(patterns, s) == \E p \in patterns : Contains(s, p)

\* RoomId::parse / RoomAliasId::parse: the sigil, then a ':' that is
\* followed by a server name
ParseId(sigil, s) ==
    /\ Len(s) >= 1
    /\ s[1] = sigil
    /\ \E i \in 2..(Len(s) - 1) : s[i] = ":"

\* format!("#{}:{}", room_alias_name, server_name)
FullAlias(room_alias_name) == <<"#">> \o room_alias_name \o <<":">> \o server_name

\* format!("!{}:{}", custom_room_id, server_name)
FullRoomId(custom_room_id) == <<"!">> \o custom_room_id \o <<":">> \o server_name

\* str::contains(char::is_whitespace)
ContainsWhitespace(s) == \E i \in 1..Len(s) : s[i] \in Whitespace

\* the checks with the namespace rule ahead of the lookup of the alias
room_alias_check_NamespaceFirst(forbidden, resolved, exclusive, room_alias_name, appservice_info) ==
    LET full_room_alias == FullAlias(room_alias_name) IN
    IF Contains(room_alias_name, <<":">>) THEN Err("InvalidParam")
    ELSE IF ContainsWhitespace(room_alias_name) THEN Err("InvalidParam")
    ELSE IF is_match(forbidden, room_alias_name) THEN Err("Unknown")
    ELSE IF ~ParseId("#", full_room_alias) THEN Err("InvalidParam")
    ELSE IF appservice_info # None
              /\ ~is_match(Unwrap(appservice_info).aliases, full_room_alias)
         THEN Err("Exclusive")
    ELSE IF appservice_info = None /\ is_match(exclusive, full_room_alias)
         THEN Err("Exclusive")
    ELSE IF full_room_alias \in resolved THEN Err("RoomInUse")
    ELSE Ok(full_room_alias)

\* room_alias_check: forbidden is services.globals.forbidden_alias_names(),
\* resolved the set of aliases resolve_local_alias finds a room for,
\* exclusive the alias namespaces appservices hold exclusively, and
\* appservice_info the caller's registration (its alias namespace), if any.
room_alias_check(forbidden, resolved, exclusive, room_alias_name, appservice_info) ==
    LET full_room_alias == FullAlias(room_alias_name) IN
    IF Contains(room_alias_name, <<":">>) THEN Err("InvalidParam")
    ELSE IF ContainsWhitespace(room_alias_name) THEN Err("InvalidParam")
    ELSE IF is_match(forbidden, room_alias_name) THEN Err("Unknown")
    ELSE IF ~ParseId("#", full_room_alias) THEN Err("InvalidParam")
    ELSE IF full_room_alias \in resolved THEN Err("RoomInUse")
    ELSE IF appservice_info # None
              /\ ~is_match(Unwrap(appservice_info).aliases, full_room_alias)
         THEN Err("Exclusive")
    ELSE IF appservice_info = None /\ is_match(exclusive, full_room_alias)
         THEN Err("Exclusive")
    ELSE Ok(full_room_alias)

\* custom_room_id_check
custom_room_id_check(forbidden, custom_room_id) ==
    LET full_room_id == FullRoomId(custom_room_id) IN
    IF is_match(forbidden, custom_room_id) THEN Err("Unknown")
    ELSE IF Contains(custom_room_id, <<":">>) THEN Err("InvalidParam")
    ELSE IF ContainsWhitespace(custom_room_id) THEN Err("InvalidParam")
    ELSE IF ~ParseId("!", full_room_id) THEN Err("InvalidParam")
    ELSE Ok(full_room_id)

(***************************************************************************)
(* Power-level policy.                                                     *)
(***************************************************************************)
EmptyObject == [k \in {} |-> 0]

\* object[key] = value
Put(object, key, value) ==
    [k \in DOMAIN object \cup {key} |-> IF k = key THEN value ELSE object[k]]

HardenedKeys ==
    {"m.room.power_levels", "m.room.server_acl", "m.room.tombstone",
     "m.room.encryption", "m.room.history_visibility"}

PollKeys == {"org.matrix.msc3381.poll.response", "m.poll.response"}

CallKeys ==
    {"m.call.invite", "m.call", "m.call.member", "org.matrix.msc3401.call",
     "org.matrix.msc3401.call.member"}

\* value["events"][key] = level for every key of keys: a missing "events"
\* entry is created as an object by the index assignment
PutEvents(content, keys, level) ==
    LET events == IF "events" \in DOMAIN content THEN content["events"] ELSE EmptyObject
    IN  Put(content, "events",
            [k \in DOMAIN events \cup keys |-> IF k \in keys THEN level ELSE events[k]])

\* a merge that descends into the objects: an entry of the override that is
\* an object is merged into the computed object of the same key
MergeOverride_Deep(content, json) ==
    [k \in DOMAIN content \cup DOMAIN json |->
        IF k \notin DOMAIN json THEN content[k]
        ELSE IF k \in DOMAIN content /\ k \in {"events", "users"}
        THEN [e \in DOMAIN content[k] \cup DOMAIN json[k] |->
                 IF e \in DOMAIN json[k] THEN json[k][e] ELSE content[k][e]]
        ELSE json[k]]

\* a merge in which the override document replaces the computed content
MergeOverride_Replace(content, json) == json

\* for (key, value) in json { power_levels_content[key] = value }
MergeOverride(content, json) ==
    [k \in DOMAIN content \cup DOMAIN json |->
        IF k \in DOMAIN json THEN json[k] ELSE content[k]]

\* the policy with the call keys set whatever the visibility is
default_power_levels_content_CallsAlways(power_level_content_override, visibility, users) ==
    LET c0 == [k \in {"users"} |-> users]
        c1 == PutEvents(c0, HardenedKeys, 100)
        c2 == PutEvents(c1, PollKeys, 0)
        c3 == PutEvents(c2, CallKeys, 50)
    IN  IF power_level_content_override = None THEN Ok(c3)
        ELSE IF ~Unwrap(power_level_content_override).is_object THEN Err("BadJson")
        ELSE Ok(MergeOverride(c3, Unwrap(power_level_content_override).json))

\* default_power_levels_content: the override is None or a raw document
\* [is_object, json]; serde_json::from_str::<JsonObject> fails on a document
\* that is not an object.  RoomPowerLevelsEventContent serialises only the
\* fields that differ from their defaults, here the users map.
default_power_levels_content(power_level_content_override, visibility, users) ==
    LET c0 == [k \in {"users"} |-> users]
        c1 == PutEvents(c0, HardenedKeys, 100)
        c2 == PutEvents(c1, PollKeys, 0)
        c3 == IF visibility = "public" THEN PutEvents(c2, CallKeys, 50) ELSE c2
    IN  IF power_level_content_override = None THEN Ok(c3)
        ELSE IF ~Unwrap(power_level_content_override).is_object THEN Err("BadJson")
        ELSE Ok(MergeOverride(c3, Unwrap(power_level_content_override).json))

(***************************************************************************)
(* State.                                                                  *)
(***************************************************************************)
VARIABLES
    config,        \* services.globals: the server's policy switches
    shortroomid,   \* services.rooms.short: the room ids that have a short id
    timeline,      \* services.rooms.timeline: room id -> its PDUs, in append order
    mutex,         \* services.rooms.state.mutex: locked room id -> holding task
    alias_store,   \* services.rooms.alias: alias -> room id
    directory,     \* services.rooms.directory: the published rooms
    invited,       \* the invites invite_helper delivered, as <<room id, user>>
    admin_notices, \* the number of texts sent to services.admin
    req,           \* task -> the request it serves
    pc,            \* task -> its position in the handler
    loc,           \* task -> the handler's local variables
    eval           \* a pure function under evaluation: its inputs and its result

vars ==
    <<config, shortroomid, timeline, mutex, alias_store, directory, invited,
      admin_notices, req, pc, loc, eval>>

\* the request tasks: two calls run at once
Tasks == {1, 2}

\* RoomId::new(server_name): a random id, distinct for every call
NewRoomId(t) == <<"!", "g", ToString(t), ":">> \o server_name

\* the timeline of a room; a room without events has the empty one
Timeline(room_id) ==
    IF room_id \in DOMAIN timeline THEN timeline[room_id] ELSE << >>

\* services.rooms.state_accessor.room_state_get: the latest PDU of the room
\* with this event type and state key
room_state_get(room_id, event_type, state_key) ==
    LET tl == Timeline(room_id)
        at == {i \in 1..Len(tl) :
                 tl[i].event_type = event_type /\ tl[i].state_key = Some(state_key)}
    IN  IF at = {} THEN None
        ELSE Some(tl[CHOOSE i \in at : \A j \in at : j <= i])

\* services.rooms.short.get_shortroomid(room_id).is_some()
get_shortroomid(room_id) == room_id \in shortroomid

\* services.rooms.alias.resolve_local_alias(alias)
resolve_local_alias(alias) ==
    IF alias \in DOMAIN alias_store THEN Some(alias_store[alias]) ELSE None

\* services.rooms.alias.local_aliases_for_room(room_id)
local_aliases_for_room(room_id) ==
    {a \in DOMAIN alias_store : alias_store[a] = room_id}

\* the function f without the key k
Without(f, k) == [x \in DOMAIN f \ {k} |-> f[x]]

PduBuilder(event_type, content, state_key) ==
    [event_type |-> event_type, content |-> content, state_key |-> state_key]

(***************************************************************************)
(* The local variables of a handler, and how a handler returns.            *)
(***************************************************************************)
InitLoc ==
    [room_id |-> None,            \* create: room_id; upgrade: replacement_room
     alias |-> None,
     state_lock |-> None,         \* the room whose guard state_lock is bound to
     event_id |-> None,           \* what the last build_and_append_pdu returned
     tombstone_event_id |-> None,
     i |-> 1,                     \* the index of the loop the handler is in
     pending |-> None,            \* the build_and_append_pdu call in flight
     ret |-> "done",              \* where the handler resumes after that call
     alias_moving |-> None,       \* upgrade: the alias between remove and set
     append_failed |-> FALSE,     \* the handler's error came from an append
     result |-> None]

\* drop(state_lock) by a handler whose locals are l: the room's mutex is free
Unlock(l) ==
    IF l.state_lock = None THEN mutex ELSE Without(mutex, Unwrap(l.state_lock))

\* a return that leaves the guard's room locked
Return_KeepLock(t, l, result) ==
    /\ pc' = [pc EXCEPT ![t] = "done"]
    /\ mutex' = mutex
    /\ loc' = [loc EXCEPT ![t] = [l EXCEPT !.result = Some(result),
                                           !.state_lock = None,
                                           !.pending = None]]

\* return from a handler whose locals are l: the guard still bound is
\* dropped with the handler's frame
Return(t, l, result) ==
    /\ pc' = [pc EXCEPT ![t] = "done"]
    /\ mutex' = Unlock(l)
    /\ loc' = [loc EXCEPT ![t] = [l EXCEPT !.result = Some(result),
                                           !.state_lock = None,
                                           !.pending = None]]

\* the call build_and_append_pdu(pdu_builder, sender_user, room_id, &state_lock)
\* is made by a handler whose locals are l, and the handler waits for it
CallAppend(t, l, pdu_builder, room_id, ret) ==
    /\ pc' = [pc EXCEPT ![t] = "append"]
    /\ loc' = [loc EXCEPT ![t] =
                 [l EXCEPT !.pending = Some([room_id |-> room_id,
                                             pdu |-> pdu_builder,
                                             state_lock |-> l.state_lock]),
                           !.ret = ret]]

(***************************************************************************)
(* build_and_append_pdu, as the handlers see it: the call takes time, then *)
(* either appends the PDU to the room's timeline and returns its event id, *)
(* or fails (the authorization rules rejected the event) and appends       *)
(* nothing.                                                                *)
(***************************************************************************)
AppendOk(t) ==
    /\ pc[t] = "append"
    /\ LET p == Unwrap(loc[t].pending)
           event_id == [room_id |-> p.room_id, n |-> Len(Timeline(p.room_id)) + 1]
           pdu == [event_type |-> p.pdu.event_type,
                   content |-> p.pdu.content,
                   state_key |-> p.pdu.state_key,
                   sender |-> req[t].sender_user,
                   event_id |-> event_id]
       IN  /\ timeline' = Put(timeline, p.room_id, Append(Timeline(p.room_id), pdu))
           /\ loc' = [loc EXCEPT ![t].pending = None, ![t].event_id = Some(event_id)]
    /\ pc' = [pc EXCEPT ![t] = loc[t].ret]
    /\ UNCHANGED <<config, shortroomid, mutex, alias_store, directory, invited,
                   admin_notices, req, eval>>

AppendErr(t) ==
    /\ pc[t] = "append"
    /\ Return(t, [loc[t] EXCEPT !.append_failed = TRUE], Err("Forbidden"))
    /\ UNCHANGED <<config, shortroomid, timeline, alias_store, directory, invited,
                   admin_notices, req, eval>>

(***************************************************************************)
(* create_room_route                                                       *)
(***************************************************************************)
is_admin(user) == user \in config.admins

\* lines 73-119: the creation gate, the room id, the existence check and the
\* directory lockdown
CrCheck(t) ==
    /\ pc[t] = "cr_check"
    /\ LET r == req[t]
           id == IF r.room_id # None
                 THEN custom_room_id_check(config.forbidden_alias_names, Unwrap(r.room_id))
                 ELSE Ok(NewRoomId(t))
           gate == /\ ~config.allow_room_creation
                   /\ r.appservice_info = None
                   /\ ~is_admin(r.sender_user)
           lockdown == /\ r.visibility = "public"
                       /\ config.lockdown_public_room_directory
                       /\ ~is_admin(r.sender_user)
                       /\ r.appservice_info = None
       IN  IF gate THEN
               /\ Return(t, loc[t], Err("Forbidden"))
               /\ UNCHANGED admin_notices
           ELSE IF ~id.ok THEN
               /\ Return(t, loc[t], id)
               /\ UNCHANGED admin_notices
           ELSE IF get_shortroomid(id.v) THEN
               /\ Return(t, loc[t], Err("RoomInUse"))
               /\ UNCHANGED admin_notices
           ELSE IF lockdown THEN
               /\ Return(t, loc[t], Err("Forbidden"))
               /\ admin_notices' = IF config.admin_room_notices
                                   THEN admin_notices + 1 ELSE admin_notices
           ELSE
               /\ pc' = [pc EXCEPT ![t] = "cr_register"]
               /\ loc' = [loc EXCEPT ![t].room_id = Some(id.v)]
               /\ UNCHANGED <<mutex, admin_notices>>
    /\ UNCHANGED <<config, shortroomid, timeline, alias_store, directory, invited,
                   req, eval>>

\* line 121: get_or_create_shortroomid(&room_id)
CrRegister(t) ==
    /\ pc[t] = "cr_register"
    /\ shortroomid' = shortroomid \cup {Unwrap(loc[t].room_id)}
    /\ pc' = [pc EXCEPT ![t] = "cr_lock"]
    /\ UNCHANGED <<config, timeline, mutex, alias_store, directory, invited,
                   admin_notices, req, loc, eval>>

\* a lock that is taken without waiting for its holder
CrLock_NoWait(t) ==
    /\ pc[t] = "cr_lock"
    /\ LET room_id == Unwrap(loc[t].room_id)
       IN  /\ mutex' = Put(mutex, room_id, t)
           /\ loc' = [loc EXCEPT ![t].state_lock = Some(room_id)]
    /\ pc' = [pc EXCEPT ![t] = "cr_prepare"]
    /\ UNCHANGED <<config, shortroomid, timeline, alias_store, directory, invited,
                   admin_notices, req, eval>>

\* line 122: services.rooms.state.mutex.lock(&room_id).await
CrLock(t) ==
    /\ pc[t] = "cr_lock"
    /\ LET room_id == Unwrap(loc[t].room_id)
       IN  /\ room_id \notin DOMAIN mutex
           /\ mutex' = Put(mutex, room_id, t)
           /\ loc' = [loc EXCEPT ![t].state_lock = Some(room_id)]
    /\ pc' = [pc EXCEPT ![t] = "cr_prepare"]
    /\ UNCHANGED <<config, shortroomid, timeline, alias_store, directory, invited,
                   admin_notices, req, eval>>

\* lines 130-146: the room version of the new room
CreateRoomVersion(r) ==
    IF r.room_version = None THEN Ok(default_room_version)
    ELSE IF Unwrap(r.room_version) \in supported_room_versions
    THEN Ok(Unwrap(r.room_version))
    ELSE Err("UnsupportedRoomVersion")

\* lines 149-202: the content of the create event
CreateContent(r, room_version) ==
    IF r.creation_content # None THEN
        IF ~Unwrap(r.creation_content).is_object THEN Err("BadDatabase")
        ELSE LET content == Unwrap(r.creation_content).json
                 c1 == IF room_version \in LegacyVersions
                       THEN Put(content, "creator", r.sender_user)
                       ELSE content
             IN  Ok(Put(c1, "room_version", room_version))
    ELSE LET content == IF room_version \in LegacyVersions
                        THEN [k \in {"creator"} |-> r.sender_user]
                        ELSE EmptyObject
         IN  Ok(Put(content, "room_version", room_version))

\* lines 124-202: the alias, the room version and the create content are
\* validated under the room's lock
CrPrepare(t) ==
    /\ pc[t] = "cr_prepare"
    /\ LET r == req[t]
           alias == IF r.room_alias_name # None
                    THEN room_alias_check(config.forbidden_alias_names,
                                          DOMAIN alias_store,
                                          config.exclusive_aliases,
                                          Unwrap(r.room_alias_name),
                                          r.appservice_info)
                    ELSE Ok(<< >>)
           room_version == CreateRoomVersion(r)
           content == CreateContent(r, room_version.v)
       IN  IF ~alias.ok THEN Return(t, loc[t], alias)
           ELSE IF ~room_version.ok THEN Return(t, loc[t], room_version)
           ELSE IF ~content.ok THEN Return(t, loc[t], content)
           ELSE /\ pc' = [pc EXCEPT ![t] = "cr_events"]
                /\ loc' = [loc EXCEPT
                             ![t].alias = IF r.room_alias_name # None
                                          THEN Some(alias.v) ELSE None,
                             ![t].i = 1]
                /\ UNCHANGED mutex
    /\ UNCHANGED <<config, shortroomid, timeline, alias_store, directory, invited,
                   admin_notices, req, eval>>

\* a preset whose default is private_chat whatever the visibility is
Preset_IgnoresVisibility(r) ==
    IF r.preset # None THEN Unwrap(r.preset) ELSE "private_chat"

\* lines 255-258: the preset, defaulted from the visibility
Preset(r) ==
    IF r.preset # None THEN Unwrap(r.preset)
    ELSE IF r.visibility = "public" THEN "public_chat" ELSE "private_chat"

\* the users of the power-levels event without the invitees
CreateUsers_CreatorOnly(r) == [u \in {r.sender_user} |-> 100]

\* lines 260-266: the users of the power-levels event
CreateUsers(r) ==
    LET invitees == IF Preset(r) = "trusted_private_chat" THEN Range(r.invite) ELSE {}
    IN  [u \in {r.sender_user} \cup invitees |-> 100]

\* the loop over initial_state with the encryption events sent whatever the
\* server's policy is
RECURSIVE InitialStateSteps_KeepEncryption(_, _)
InitialStateSteps_KeepEncryption(initial_state, k) ==
    IF k > Len(initial_state) THEN << >>
    ELSE LET event == initial_state[k]
             rest == InitialStateSteps_KeepEncryption(initial_state, k + 1)
         IN  IF ~event.valid THEN <<Err("InvalidParam")>> \o rest
             ELSE IF event.content.literal THEN rest
             ELSE <<Ok(PduBuilder(event.event_type, event.content.json,
                                  IF event.state_key = None THEN Some("")
                                  ELSE event.state_key))>> \o rest

\* lines 384-414: what the loop over initial_state does with the events from
\* the k-th on: a Result per event that is not skipped.  An entry is valid
\* when it deserialises as a PduBuilder; its content is a raw value, the
\* JSON it holds and whether its text is literally {}, which is what
\* content.get().eq("{}") tests.
RECURSIVE InitialStateSteps(_, _)
InitialStateSteps(initial_state, k) ==
    IF k > Len(initial_state) THEN << >>
    ELSE LET event == initial_state[k]
             rest == InitialStateSteps(initial_state, k + 1)
         IN  IF ~event.valid THEN <<Err("InvalidParam")>> \o rest
             ELSE IF event.content.literal THEN rest
             ELSE IF event.event_type = "m.room.encryption" /\ ~config.allow_encryption
                  THEN rest
             ELSE <<Ok(PduBuilder(event.event_type, event.content.json,
                                  IF event.state_key = None THEN Some("")
                                  ELSE event.state_key))>> \o rest

\* the PDUs of the handler with the creator's join sent before the create event
CreateSteps_JoinFirst(r, alias) ==
    LET room_version == CreateRoomVersion(r).v
        preset == Preset(r)
        power_levels_content ==
            default_power_levels_content(r.power_level_content_override,
                                         r.visibility, CreateUsers(r))
    IN  <<Ok(PduBuilder("m.room.member",
                        [membership |-> "join", is_direct |-> Some(r.is_direct)],
                        Some(r.sender_user))),
          Ok(PduBuilder("m.room.create", CreateContent(r, room_version).v, Some(""))),
          IF power_levels_content.ok
          THEN Ok(PduBuilder("m.room.power_levels", power_levels_content.v, Some("")))
          ELSE power_levels_content>>
        \o (IF alias # None
            THEN <<Ok(PduBuilder("m.room.canonical_alias",
                                 [alias |-> alias, alt_aliases |-> << >>], Some("")))>>
            ELSE << >>)
        \o <<Ok(PduBuilder("m.room.join_rules",
                           [join_rule |-> IF preset = "public_chat"
                                          THEN "public" ELSE "invite"],
                           Some(""))),
             Ok(PduBuilder("m.room.history_visibility",
                           [history_visibility |-> "shared"], Some(""))),
             Ok(PduBuilder("m.room.guest_access",
                           [guest_access |-> IF preset = "public_chat"
                                             THEN "forbidden" ELSE "can_join"],
                           Some("")))>>
        \o InitialStateSteps(r.initial_state, 1)
        \o (IF r.name # None
            THEN <<Ok(PduBuilder("m.room.name", [name |-> Unwrap(r.name)], Some("")))>>
            ELSE << >>)
        \o (IF r.topic # None
            THEN <<Ok(PduBuilder("m.room.topic", [topic |-> Unwrap(r.topic)], Some("")))>>
            ELSE << >>)

\* lines 204-459: the PDUs the handler appends to the new room, in order; an
\* Err in place of a PDU is the error the handler returns at that point
CreateSteps(r, alias) ==
    LET room_version == CreateRoomVersion(r).v
        preset == Preset(r)
        power_levels_content ==
            default_power_levels_content(r.power_level_content_override,
                                         r.visibility, CreateUsers(r))
    IN  <<Ok(PduBuilder("m.room.create", CreateContent(r, room_version).v, Some(""))),
          Ok(PduBuilder("m.room.member",
                        [membership |-> "join", is_direct |-> Some(r.is_direct)],
                        Some(r.sender_user))),
          IF power_levels_content.ok
          THEN Ok(PduBuilder("m.room.power_levels", power_levels_content.v, Some("")))
          ELSE power_levels_content>>
        \o (IF alias # None
            THEN <<Ok(PduBuilder("m.room.canonical_alias",
                                 [alias |-> alias, alt_aliases |-> << >>], Some("")))>>
            ELSE << >>)
        \o <<Ok(PduBuilder("m.room.join_rules",
                           [join_rule |-> IF preset = "public_chat"
                                          THEN "public" ELSE "invite"],
                           Some(""))),
             Ok(PduBuilder("m.room.history_visibility",
                           [history_visibility |-> "shared"], Some(""))),
             Ok(PduBuilder("m.room.guest_access",
                           [guest_access |-> IF preset = "public_chat"
                                             THEN "forbidden" ELSE "can_join"],
                           Some("")))>>
        \o InitialStateSteps(r.initial_state, 1)
        \o (IF r.name # None
            THEN <<Ok(PduBuilder("m.room.name", [name |-> Unwrap(r.name)], Some("")))>>
            ELSE << >>)
        \o (IF r.topic # None
            THEN <<Ok(PduBuilder("m.room.topic", [topic |-> Unwrap(r.topic)], Some("")))>>
            ELSE << >>)

\* the appends, with the lock kept after the last of them
CrEvents_KeepsLock(t) ==
    /\ pc[t] = "cr_events"
    /\ LET steps == CreateSteps(req[t], loc[t].alias)
           i == loc[t].i
       IN  IF i > Len(steps) THEN
               /\ loc' = [loc EXCEPT ![t].i = 1]
               /\ pc' = [pc EXCEPT ![t] = "cr_invite"]
               /\ UNCHANGED mutex
           ELSE IF ~steps[i].ok THEN
               Return(t, loc[t], steps[i])
           ELSE
               /\ CallAppend(t, [loc[t] EXCEPT !.i = i + 1], steps[i].v,
                             Unwrap(loc[t].room_id), "cr_events")
               /\ UNCHANGED mutex
    /\ UNCHANGED <<config, shortroomid, timeline, alias_store, directory, invited,
                   admin_notices, req, eval>>

\* the appends with the alias bound before the first of them
CrEvents_BindsAliasFirst(t) ==
    /\ pc[t] = "cr_events"
    /\ LET steps == CreateSteps(req[t], loc[t].alias)
           i == loc[t].i
       IN  IF i > Len(steps) THEN
               /\ mutex' = Unlock(loc[t])
               /\ loc' = [loc EXCEPT ![t].state_lock = None, ![t].i = 1]
               /\ pc' = [pc EXCEPT ![t] = "cr_invite"]
               /\ UNCHANGED alias_store
           ELSE IF ~steps[i].ok THEN
               /\ Return(t, loc[t], steps[i])
               /\ UNCHANGED alias_store
           ELSE
               /\ CallAppend(t, [loc[t] EXCEPT !.i = i + 1], steps[i].v,
                             Unwrap(loc[t].room_id), "cr_events")
               /\ alias_store' = IF i = 1 /\ loc[t].alias # None
                                 THEN Put(alias_store, Unwrap(loc[t].alias),
                                          Unwrap(loc[t].room_id))
                                 ELSE alias_store
               /\ UNCHANGED mutex
    /\ UNCHANGED <<config, shortroomid, timeline, directory, invited,
                   admin_notices, req, eval>>

\* lines 204-462: the next PDU of the sequence is appended under state_lock;
\* after the last one, drop(state_lock)
CrEvents(t) ==
    /\ pc[t] = "cr_events"
    /\ LET steps == CreateSteps(req[t], loc[t].alias)
           i == loc[t].i
       IN  IF i > Len(steps) THEN
               /\ mutex' = Unlock(loc[t])
               /\ loc' = [loc EXCEPT ![t].state_lock = None, ![t].i = 1]
               /\ pc' = [pc EXCEPT ![t] = "cr_invite"]
           ELSE IF ~steps[i].ok THEN
               Return(t, loc[t], steps[i])
           ELSE
               /\ CallAppend(t, [loc[t] EXCEPT !.i = i + 1], steps[i].v,
                             Unwrap(loc[t].room_id), "cr_events")
               /\ UNCHANGED mutex
    /\ UNCHANGED <<config, shortroomid, timeline, alias_store, directory, invited,
                   admin_notices, req, eval>>

\* an invite whose error is returned to the caller
CrInvite_Propagates(t) ==
    /\ pc[t] = "cr_invite"
    /\ loc[t].i <= Len(req[t].invite)
    /\ \E delivered \in BOOLEAN :
         IF delivered THEN
             /\ invited' = invited \cup {<<Unwrap(loc[t].room_id), req[t].invite[loc[t].i]>>}
             /\ loc' = [loc EXCEPT ![t].i = loc[t].i + 1]
             /\ UNCHANGED <<mutex, pc>>
         ELSE
             /\ Return(t, loc[t], Err("Forbidden"))
             /\ UNCHANGED invited
    /\ UNCHANGED <<config, shortroomid, timeline, alias_store, directory,
                   admin_notices, req, eval>>

\* lines 463-467: invite_helper for the next invitee; its error is logged
CrInvite(t) ==
    /\ pc[t] = "cr_invite"
    /\ loc[t].i <= Len(req[t].invite)
    /\ \E delivered \in BOOLEAN :
         invited' = IF delivered
                    THEN invited \cup {<<Unwrap(loc[t].room_id), req[t].invite[loc[t].i]>>}
                    ELSE invited
    /\ loc' = [loc EXCEPT ![t].i = loc[t].i + 1]
    /\ UNCHANGED <<config, shortroomid, timeline, mutex, alias_store, directory,
                   admin_notices, req, pc, eval>>

\* lines 470-475: set_alias(&alias, &room_id, sender_user)?
CrSetAlias(t) ==
    /\ pc[t] = "cr_invite"
    /\ loc[t].i > Len(req[t].invite)
    /\ IF loc[t].alias = None THEN
           /\ pc' = [pc EXCEPT ![t] = "cr_public"]
           /\ UNCHANGED <<alias_store, mutex, loc>>
       ELSE \E stored \in BOOLEAN :
           IF stored THEN
               /\ alias_store' = Put(alias_store, Unwrap(loc[t].alias),
                                     Unwrap(loc[t].room_id))
               /\ pc' = [pc EXCEPT ![t] = "cr_public"]
               /\ UNCHANGED <<mutex, loc>>
           ELSE
               /\ Return(t, loc[t], Err("Database"))
               /\ UNCHANGED alias_store
    /\ UNCHANGED <<config, shortroomid, timeline, directory, invited,
                   admin_notices, req, eval>>

\* lines 477-491: set_public(&room_id)?, the admin notice, and the response
CrPublic(t) ==
    /\ pc[t] = "cr_public"
    /\ IF req[t].visibility = "public" THEN
           \E stored \in BOOLEAN :
               IF stored THEN
                   /\ directory' = directory \cup {Unwrap(loc[t].room_id)}
                   /\ admin_notices' = IF config.admin_room_notices
                                       THEN admin_notices + 1 ELSE admin_notices
                   /\ Return(t, loc[t], Ok(Unwrap(loc[t].room_id)))
               ELSE
                   /\ Return(t, loc[t], Err("Database"))
                   /\ UNCHANGED <<directory, admin_notices>>
       ELSE
           /\ Return(t, loc[t], Ok(Unwrap(loc[t].room_id)))
           /\ UNCHANGED <<directory, admin_notices>>
    /\ UNCHANGED <<config, shortroomid, timeline, alias_store, invited, req, eval>>

(***************************************************************************)
(* upgrade_room_route                                                      *)
(***************************************************************************)
\* the list without the power levels
TRANSFERABLE_STATE_EVENTS_NoPowerLevels ==
    <<"m.room.server_acl", "m.room.encryption", "m.room.name", "m.room.avatar",
      "m.room.topic", "m.room.guest_access", "m.room.history_visibility",
      "m.room.join_rules">>

\* TRANSFERABLE_STATE_EVENTS
TRANSFERABLE_STATE_EVENTS ==
    <<"m.room.server_acl", "m.room.encryption", "m.room.name", "m.room.avatar",
      "m.room.topic", "m.room.guest_access", "m.room.history_visibility",
      "m.room.join_rules", "m.room.power_levels">>

\* Int::MAX, the greatest power level: js_int's is 2^53 - 1, and the greatest
\* integer of the model stands for it
Int_MAX == 2147483647

\* an addition that wraps around at Int::MAX
checked_add_Wrapping(a, b) ==
    IF a > Int_MAX - b THEN Some((a - Int_MAX) + (b - Int_MAX) - 2) ELSE Some(a + b)

\* Int::checked_add
checked_add(a, b) == IF a > Int_MAX - b THEN None ELSE Some(a + b)

max(a, b) == IF a >= b THEN a ELSE b

\* RoomPowerLevelsEventContent: its fields and their defaults
PowerLevelsDefault ==
    [ban |-> 50, events |-> EmptyObject, events_default |-> 0, invite |-> 0,
     kick |-> 50, redact |-> 50, state_default |-> 50, users |-> EmptyObject,
     users_default |-> 0]

\* serde_json::from_str::<RoomPowerLevelsEventContent>: a missing field takes
\* its default, an unknown key is dropped
PowerLevelsFromJson(content) ==
    [k \in DOMAIN PowerLevelsDefault |->
        IF k \in DOMAIN content THEN content[k] ELSE PowerLevelsDefault[k]]

\* to_raw_value(&RoomPowerLevelsEventContent): a field with its default value
\* is not serialised
PowerLevelsToJson(power_levels) ==
    LET keys == {k \in DOMAIN power_levels : power_levels[k] # PowerLevelsDefault[k]}
    IN  [k \in keys |-> power_levels[k]]

\* lines 575-594: the version check, the replacement room id and its short id
UpCheck(t) ==
    /\ pc[t] = "up_check"
    /\ IF req[t].new_version \notin supported_room_versions THEN
           /\ Return(t, loc[t], Err("UnsupportedRoomVersion"))
           /\ UNCHANGED shortroomid
       ELSE
           /\ shortroomid' = shortroomid \cup {NewRoomId(t)}
           /\ loc' = [loc EXCEPT ![t].room_id = Some(NewRoomId(t))]
           /\ pc' = [pc EXCEPT ![t] = "up_lock_old"]
           /\ UNCHANGED mutex
    /\ UNCHANGED <<config, timeline, alias_store, directory, invited,
                   admin_notices, req, eval>>

\* a tombstone that names the old room as its own replacement
UpLockOld_NamesOldRoom(t) ==
    /\ pc[t] = "up_lock_old"
    /\ req[t].room_id \notin DOMAIN mutex
    /\ mutex' = Put(mutex, req[t].room_id, t)
    /\ CallAppend(t, [loc[t] EXCEPT !.state_lock = Some(req[t].room_id)],
                  PduBuilder("m.room.tombstone",
                             [body |-> "This room has been replaced",
                              replacement_room |-> req[t].room_id],
                             Some("")),
                  req[t].room_id, "up_switch")
    /\ UNCHANGED <<config, shortroomid, timeline, alias_store, directory, invited,
                   admin_notices, req, eval>>

\* lines 596-621: the old room is locked and the tombstone is sent to it
UpLockOld(t) ==
    /\ pc[t] = "up_lock_old"
    /\ req[t].room_id \notin DOMAIN mutex
    /\ mutex' = Put(mutex, req[t].room_id, t)
    /\ CallAppend(t, [loc[t] EXCEPT !.state_lock = Some(req[t].room_id)],
                  PduBuilder("m.room.tombstone",
                             [body |-> "This room has been replaced",
                              replacement_room |-> Unwrap(loc[t].room_id)],
                             Some("")),
                  req[t].room_id, "up_switch")
    /\ UNCHANGED <<config, shortroomid, timeline, alias_store, directory, invited,
                   admin_notices, req, eval>>

\* the switch of locks without drop(state_lock)
UpDropOld_NoDrop(t) ==
    /\ pc[t] = "up_switch"
    /\ loc' = [loc EXCEPT ![t].tombstone_event_id = loc[t].event_id,
                          ![t].state_lock = None]
    /\ pc' = [pc EXCEPT ![t] = "up_lock_new"]
    /\ UNCHANGED <<config, shortroomid, timeline, mutex, alias_store, directory,
                   invited, admin_notices, req, eval>>

\* lines 601, 624: tombstone_event_id is bound, and drop(state_lock)
UpDropOld(t) ==
    /\ pc[t] = "up_switch"
    /\ mutex' = Unlock(loc[t])
    /\ loc' = [loc EXCEPT ![t].tombstone_event_id = loc[t].event_id,
                          ![t].state_lock = None]
    /\ pc' = [pc EXCEPT ![t] = "up_lock_new"]
    /\ UNCHANGED <<config, shortroomid, timeline, alias_store, directory, invited,
                   admin_notices, req, eval>>

\* the content of the replacement room's create event with the old room's
\* creator left in for every version
UpgradeCreateContent_KeepCreator(old_content, r, tombstone_event_id) ==
    LET predecessor == [room_id |-> r.room_id, event_id |-> tombstone_event_id]
        c1 == IF r.new_version \in LegacyVersions
              THEN Put(old_content, "creator", r.sender_user)
              ELSE old_content
        c2 == Put(c1, "room_version", r.new_version)
    IN  Put(c2, "predecessor", predecessor)

\* lines 640-677: the content of the replacement room's create event, from
\* the old room's
UpgradeCreateContent(old_content, r, tombstone_event_id) ==
    LET predecessor == [room_id |-> r.room_id, event_id |-> tombstone_event_id]
        c1 == IF r.new_version \in LegacyVersions
              THEN Put(old_content, "creator", r.sender_user)
              ELSE Without(old_content, "creator")
        c2 == Put(c1, "room_version", r.new_version)
    IN  Put(c2, "predecessor", predecessor)

\* lines 625-706: the replacement room is locked and its create event sent
UpLockNew(t) ==
    /\ pc[t] = "up_lock_new"
    /\ LET replacement_room == Unwrap(loc[t].room_id)
           old_create == room_state_get(req[t].room_id, "m.room.create", "")
           l == [loc[t] EXCEPT !.state_lock = Some(replacement_room)]
       IN  /\ replacement_room \notin DOMAIN mutex
           /\ IF old_create = None THEN
                  Return(t, loc[t], Err("BadDatabase"))
              ELSE
                  /\ mutex' = Put(mutex, replacement_room, t)
                  /\ CallAppend(t, l,
                                PduBuilder("m.room.create",
                                           UpgradeCreateContent(
                                               Unwrap(old_create).content, req[t],
                                               Unwrap(loc[t].tombstone_event_id)),
                                           Some("")),
                                replacement_room, "up_member")
    /\ UNCHANGED <<config, shortroomid, timeline, alias_store, directory, invited,
                   admin_notices, req, eval>>

\* lines 708-735: the sender joins the replacement room
UpMember(t) ==
    /\ pc[t] = "up_member"
    /\ CallAppend(t, [loc[t] EXCEPT !.i = 1],
                  PduBuilder("m.room.member",
                             [membership |-> "join", is_direct |-> None],
                             Some(req[t].sender_user)),
                  Unwrap(loc[t].room_id), "up_transfer")
    /\ UNCHANGED <<config, shortroomid, timeline, mutex, alias_store, directory,
                   invited, admin_notices, req, eval>>

\* lines 737-765: the next transferable state event the old room has is
\* sent to the replacement room
UpTransfer(t) ==
    /\ pc[t] = "up_transfer"
    /\ LET present == {j \in loc[t].i..Len(TRANSFERABLE_STATE_EVENTS) :
                         room_state_get(req[t].room_id,
                                        TRANSFERABLE_STATE_EVENTS[j], "") # None}
       IN  IF present = {} THEN
               /\ pc' = [pc EXCEPT ![t] = "up_aliases"]
               /\ UNCHANGED loc
           ELSE
               LET j == CHOOSE j \in present : \A k \in present : j <= k
                   event_type == TRANSFERABLE_STATE_EVENTS[j]
                   event_content ==
                       Unwrap(room_state_get(req[t].room_id, event_type, "")).content
               IN  CallAppend(t, [loc[t] EXCEPT !.i = j + 1],
                              PduBuilder(event_type, event_content, Some("")),
                              Unwrap(loc[t].room_id), "up_transfer")
    /\ UNCHANGED <<config, shortroomid, timeline, mutex, alias_store, directory,
                   invited, admin_notices, req, eval>>

\* lines 767-778: remove_alias(&alias, sender_user).await? for the next local
\* alias of the old room
UpRemoveAlias(t) ==
    /\ pc[t] = "up_aliases"
    /\ \E alias \in local_aliases_for_room(req[t].room_id) :
         \E removed \in BOOLEAN :
           IF removed THEN
               /\ alias_store' = Without(alias_store, alias)
               /\ loc' = [loc EXCEPT ![t].alias_moving = Some(alias)]
               /\ pc' = [pc EXCEPT ![t] = "up_set_alias"]
               /\ UNCHANGED mutex
           ELSE
               /\ Return(t, loc[t], Err("Database"))
               /\ UNCHANGED alias_store
    /\ UNCHANGED <<config, shortroomid, timeline, directory, invited,
                   admin_notices, req, eval>>

\* a set_alias whose failure binds the alias to the old room again
UpSetAlias_Unwinds(t) ==
    /\ pc[t] = "up_set_alias"
    /\ \E stored \in BOOLEAN :
         IF stored THEN
             /\ alias_store' = Put(alias_store, Unwrap(loc[t].alias_moving),
                                   Unwrap(loc[t].room_id))
             /\ loc' = [loc EXCEPT ![t].alias_moving = None]
             /\ pc' = [pc EXCEPT ![t] = "up_aliases"]
             /\ UNCHANGED mutex
         ELSE
             /\ Return(t, loc[t], Err("Database"))
             /\ alias_store' = Put(alias_store, Unwrap(loc[t].alias_moving),
                                   req[t].room_id)
    /\ UNCHANGED <<config, shortroomid, timeline, directory, invited,
                   admin_notices, req, eval>>

\* lines 779-782: set_alias(&alias, &replacement_room, sender_user)?
UpSetAlias(t) ==
    /\ pc[t] = "up_set_alias"
    /\ \E stored \in BOOLEAN :
         IF stored THEN
             /\ alias_store' = Put(alias_store, Unwrap(loc[t].alias_moving),
                                   Unwrap(loc[t].room_id))
             /\ loc' = [loc EXCEPT ![t].alias_moving = None]
             /\ pc' = [pc EXCEPT ![t] = "up_aliases"]
             /\ UNCHANGED mutex
         ELSE
             /\ Return(t, loc[t], Err("Database"))
             /\ UNCHANGED alias_store
    /\ UNCHANGED <<config, shortroomid, timeline, directory, invited,
                   admin_notices, req, eval>>

\* lines 797-808: events_default and invite become the greater of 50 and
\* users_default + 1
DemotedPowerLevels(power_levels) ==
    LET incremented == checked_add(power_levels.users_default, 1)
    IN  IF incremented = None THEN Err("BadJson")
        ELSE LET new_level == max(50, Unwrap(incremented))
             IN  Ok([power_levels EXCEPT !.events_default = new_level,
                                         !.invite = new_level])

\* lines 785-828: the old room's power levels are read, demoted and sent to
\* the old room, with the guard state_lock is bound to
UpDemote(t) ==
    /\ pc[t] = "up_aliases"
    /\ local_aliases_for_room(req[t].room_id) = {}
    /\ LET old == room_state_get(req[t].room_id, "m.room.power_levels", "")
       IN  IF old = None THEN Return(t, loc[t], Err("BadDatabase"))
           ELSE LET demoted == DemotedPowerLevels(
                                   PowerLevelsFromJson(Unwrap(old).content))
                IN  IF ~demoted.ok THEN Return(t, loc[t], demoted)
                    ELSE /\ CallAppend(t, loc[t],
                                       PduBuilder("m.room.power_levels",
                                                  PowerLevelsToJson(demoted.v),
                                                  Some("")),
                                       req[t].room_id, "up_done")
                         /\ UNCHANGED mutex
    /\ UNCHANGED <<config, shortroomid, timeline, alias_store, directory, invited,
                   admin_notices, req, eval>>

\* lines 830-835: drop(state_lock) and the response
UpDone(t) ==
    /\ pc[t] = "up_done"
    /\ Return(t, loc[t], Ok(Unwrap(loc[t].room_id)))
    /\ UNCHANGED <<config, shortroomid, timeline, alias_store, directory, invited,
                   admin_notices, req, eval>>

(***************************************************************************)
(* Another writer of a room: a handler that sends one state event to the   *)
(* room under the room's lock.                                             *)
(***************************************************************************)
WLock(t) ==
    /\ pc[t] = "w_lock"
    /\ req[t].room_id \notin DOMAIN mutex
    /\ mutex' = Put(mutex, req[t].room_id, t)
    /\ CallAppend(t, [loc[t] EXCEPT !.state_lock = Some(req[t].room_id)],
                  req[t].pdu, req[t].room_id, "w_done")
    /\ UNCHANGED <<config, shortroomid, timeline, alias_store, directory, invited,
                   admin_notices, req, eval>>

WDone(t) ==
    /\ pc[t] = "w_done"
    /\ Return(t, loc[t], Ok(req[t].room_id))
    /\ UNCHANGED <<config, shortroomid, timeline, alias_store, directory, invited,
                   admin_notices, req, eval>>

(***************************************************************************)
(* Requests and the initial state.                                         *)
(***************************************************************************)
BaseConfig ==
    [allow_room_creation |-> TRUE,
     lockdown_public_room_directory |-> FALSE,
     admin_room_notices |-> TRUE,
     allow_encryption |-> TRUE,
     forbidden_alias_names |-> {},
     exclusive_aliases |-> {},
     admins |-> {}]

\* a create_room::v3::Request with every optional field left out
BaseCreate ==
    [kind |-> "create",
     sender_user |-> "@alice",
     appservice_info |-> None,
     room_id |-> None,
     room_alias_name |-> None,
     room_version |-> None,
     visibility |-> "private",
     preset |-> None,
     invite |-> << >>,
     power_level_content_override |-> None,
     creation_content |-> None,
     initial_state |-> << >>,
     name |-> None,
     topic |-> None,
     is_direct |-> FALSE]

UpgradeRequest(sender_user, room_id, new_version) ==
    [kind |-> "upgrade", sender_user |-> sender_user, room_id |-> room_id,
     new_version |-> new_version]

WriteRequest(sender_user, room_id, pdu) ==
    [kind |-> "write", sender_user |-> sender_user, room_id |-> room_id, pdu |-> pdu]

NoRequest == [kind |-> "none", sender_user |-> "@alice"]

\* where the handler of a request starts
StartPc(r) ==
    CASE r.kind = "create" -> "cr_check"
      [] r.kind = "upgrade" -> "up_check"
      [] r.kind = "write" -> "w_lock"
      [] OTHER -> "done"

\* a JSON object with the given optional entries
OverrideObject(events, users, users_default) ==
    [k \in (IF events # None THEN {"events"} ELSE {})
           \cup (IF users # None THEN {"users"} ELSE {})
           \cup (IF users_default # None THEN {"users_default"} ELSE {}) |->
        IF k = "events" THEN Unwrap(events)
        ELSE IF k = "users" THEN Unwrap(users)
        ELSE Unwrap(users_default)]

RawObject(json) == [is_object |-> TRUE, json |-> json]
\* the rooms that exist when the requests arrive, each as create_room_route
\* left it
RoomA == <<"!", "A", ":">> \o server_name
RoomB == <<"!", "B", ":">> \o server_name
RoomC == <<"!", "C", ":">> \o server_name
RoomD == <<"!", "D", ":">> \o server_name
InitialRooms == {RoomA, RoomB, RoomC, RoomD}
OldAlias == FullAlias(<<"o">>)

CreatedTimeline(room_id, r) ==
    LET steps == CreateSteps(r, None)
    IN  [n \in 1..Len(steps) |->
            [event_type |-> steps[n].v.event_type,
             content |-> steps[n].v.content,
             state_key |-> steps[n].v.state_key,
             sender |-> r.sender_user,
             event_id |-> [room_id |-> room_id, n |-> n]]]

\* room A has the default version, room B version 11 and a name, room C was
\* created with an override that sets users_default to Int::MAX, and room D
\* is what a create_room_route call left whose power-levels append failed:
\* the create event and the creator's join
InitialTimeline ==
    [room_id \in InitialRooms |->
        IF room_id = RoomA
        THEN CreatedTimeline(RoomA, BaseCreate)
        ELSE IF room_id = RoomB
        THEN CreatedTimeline(RoomB, [BaseCreate EXCEPT !.room_version = Some("11"),
                                                       !.name = Some("n")])
        ELSE IF room_id = RoomC
        THEN CreatedTimeline(RoomC,
                 [BaseCreate EXCEPT !.power_level_content_override =
                     Some(RawObject(OverrideObject(None, None, Some(Int_MAX))))])
        ELSE SubSeq(CreatedTimeline(RoomD, BaseCreate), 1, 2)]

InitWorld ==
    /\ shortroomid = InitialRooms
    /\ timeline = InitialTimeline
    /\ mutex = EmptyObject
    /\ alias_store = [a \in {OldAlias} |-> RoomA]
    /\ directory = {}
    /\ invited = {}
    /\ admin_notices = 0

InitTasks ==
    /\ pc = [t \in Tasks |-> StartPc(req[t])]
    /\ loc = [t \in Tasks |-> InitLoc]

\* the requests of the concurrent runs
ConcRequests ==
    <<[BaseCreate EXCEPT !.room_id = Some(<<"a">>),
                         !.room_alias_name = Some(<<"b">>),
                         !.visibility = "public",
                         !.invite = <<"@bob">>],
      [BaseCreate EXCEPT !.room_id = Some(<<"a">>),
                         !.room_alias_name = Some(<<"b", ":">>)],
      UpgradeRequest("@alice", RoomA, "11"),
      UpgradeRequest("@bob", RoomB, "10"),
      WriteRequest("@bob", RoomA,
                   PduBuilder("m.room.power_levels",
                              [users |-> [u \in {"@alice"} |-> 100],
                               users_default |-> 10],
                              Some(""))),
      [BaseCreate EXCEPT !.sender_user = "@bob",
                         !.room_alias_name = Some(<<"b">>)]>>

\* tasks are interchangeable: the requests are drawn in non-decreasing order
Init ==
    /\ config = BaseConfig
    /\ InitWorld
    /\ eval = [fn |-> "none"]
    /\ \E idx \in [Tasks -> 1..Len(ConcRequests)] :
         /\ \A t \in Tasks : t + 1 \in Tasks => idx[t] <= idx[t + 1]
         /\ req = [t \in Tasks |-> ConcRequests[idx[t]]]
    /\ InitTasks

Step(t) ==
    \/ AppendOk(t)
    \/ AppendErr(t)
    \/ CrCheck(t)
    \/ CrRegister(t)
    \/ CrLock(t)
    \/ CrPrepare(t)
    \/ CrEvents(t)
    \/ CrInvite(t)
    \/ CrSetAlias(t)
    \/ CrPublic(t)
    \/ UpCheck(t)
    \/ UpLockOld(t)
    \/ UpDropOld(t)
    \/ UpLockNew(t)
    \/ UpMember(t)
    \/ UpTransfer(t)
    \/ UpRemoveAlias(t)
    \/ UpSetAlias(t)
    \/ UpDemote(t)
    \/ UpDone(t)
    \/ WLock(t)
    \/ WDone(t)

Next == \E t \in Tasks : Step(t)

Spec == Init /\ [][Next]_vars

\* the pairs of calls whose progress is checked: a create racing an upgrade,
\* two creates of one room id, two upgrades of one room, the upgrades of two
\* rooms, an upgrade racing another writer of its room, and a create that
\* fails its validation racing an upgrade
FairPairs == {<<1, 3>>, <<1, 1>>, <<3, 3>>, <<3, 4>>, <<3, 5>>, <<2, 4>>}

FairInit ==
    /\ config = BaseConfig
    /\ InitWorld
    /\ eval = [fn |-> "none"]
    /\ \E idx \in FairPairs : req = [t \in Tasks |-> ConcRequests[idx[t]]]
    /\ InitTasks

\* the lock is fair and every call a handler waits for ends: a task that can
\* take a step eventually takes one
FairSpec == FairInit /\ [][Next]_vars /\ \A t \in Tasks : WF_vars(Step(t))

(***************************************************************************)
(* One request at a time, over a wide range of requests and policies.      *)
(***************************************************************************)
\* the local-parts the requests carry
RouteLocalParts == {<<"a">>, <<"b">>, <<"a", ":">>, <<" ">>, <<"b", " ">>}

\* a document that is not a JSON object
RawOther == [is_object |-> FALSE, json |-> EmptyObject]

\* the power_level_content_override of the requests
RouteOverrides ==
    {None, Some(RawOther),
     Some(RawObject(OverrideObject(None, Some([u \in {"@bob"} |-> 50]), None))),
     Some(RawObject(OverrideObject(Some([k \in {"m.room.name"} |-> 50]), None, None))),
     Some(RawObject(OverrideObject(None, None, Some(10)))),
     Some(RawObject(OverrideObject(Some([k \in {"m.room.tombstone"} |-> 0]),
                                   Some(EmptyObject), None)))}

Invitees == {"@bob", "@carol"}

AppserviceA == [aliases |-> {<<"#", "a">>}]

\* identifiers, aliases and room versions, under each naming policy
ValidationScenarios ==
    {[config |-> [BaseConfig EXCEPT !.forbidden_alias_names = forbidden,
                                    !.exclusive_aliases = exclusive],
      req |-> [BaseCreate EXCEPT !.room_id = room_id,
                                 !.room_alias_name = room_alias_name,
                                 !.room_version = room_version,
                                 !.appservice_info = appservice_info]] :
        forbidden \in {{}, {<<"b">>}, {<<":">>}},
        exclusive \in {{}, {<<"#", "a">>}},
        room_id \in {None} \cup {Some(s) : s \in RouteLocalParts},
        room_alias_name \in {None} \cup {Some(s) : s \in RouteLocalParts \cup {<<"o">>}},
        room_version \in {None, Some("11"), Some("custom")},
        appservice_info \in {None, Some(AppserviceA)}}

\* the policy gates
PolicyScenarios ==
    {[config |-> [BaseConfig EXCEPT !.allow_room_creation = allow,
                                    !.lockdown_public_room_directory = lockdown,
                                    !.admin_room_notices = notices,
                                    !.admins = admins],
      req |-> [BaseCreate EXCEPT !.visibility = visibility,
                                 !.room_id = Some(<<"a">>)]] :
        allow \in BOOLEAN, lockdown \in BOOLEAN, notices \in BOOLEAN,
        admins \in {{}, {"@alice"}}, visibility \in {"public", "private"}}

\* presets, invites and power-level overrides
PowerLevelScenarios ==
    {[config |-> BaseConfig,
      req |-> [BaseCreate EXCEPT !.preset = preset,
                                 !.invite = invite,
                                 !.visibility = visibility,
                                 !.power_level_content_override = override]] :
        preset \in {None, Some("private_chat"), Some("public_chat"),
                    Some("trusted_private_chat")},
        invite \in SeqsUpTo(Invitees, MaxInvite),
        visibility \in {"public", "private"},
        override \in RouteOverrides}

\* an entry of initial_state
InitialStateEvent(valid, event_type, json, literal, state_key) ==
    [valid |-> valid, event_type |-> event_type,
     content |-> [json |-> json, literal |-> literal], state_key |-> state_key]

\* an encryption event, an event whose content is written {}, one whose
\* empty content is written with a space in it, an event without a state
\* key, and an entry that is no event
InitialStateEvents ==
    {InitialStateEvent(TRUE, "m.room.encryption", [algorithm |-> "megolm"], FALSE, Some("")),
     InitialStateEvent(TRUE, "m.room.avatar", EmptyObject, TRUE, Some("")),
     InitialStateEvent(TRUE, "m.room.pinned_events", EmptyObject, FALSE, Some("")),
     InitialStateEvent(TRUE, "m.space.child", [via |-> "s"], FALSE, None),
     InitialStateEvent(FALSE, "", EmptyObject, FALSE, None)}

\* initial_state lists, under both encryption policies, with and without a
\* name and a topic to follow them
InitialStateScenarios ==
    {[config |-> [BaseConfig EXCEPT !.allow_encryption = allow_encryption],
      req |-> [BaseCreate EXCEPT !.initial_state = initial_state,
                                 !.name = name,
                                 !.topic = name]] :
        allow_encryption \in BOOLEAN,
        initial_state \in SeqsUpTo(InitialStateEvents, MaxInitialState),
        name \in {None, Some("n")}}

UpgradeScenarios ==
    {[config |-> BaseConfig, req |-> UpgradeRequest(sender_user, room_id, new_version)] :
        sender_user \in {"@alice", "@bob"},
        room_id \in InitialRooms,
        new_version \in RoomVersionId}

WriteScenarios ==
    {[config |-> BaseConfig, req |-> ConcRequests[5]]}

SeqScenarios ==
    ValidationScenarios \cup PolicyScenarios \cup PowerLevelScenarios
        \cup InitialStateScenarios \cup UpgradeScenarios \cup WriteScenarios

\* the first task serves the request, the others have none
InitSeq ==
    /\ \E s \in SeqScenarios :
         /\ config = s.config
         /\ req = [t \in Tasks |-> IF t = 1 THEN s.req ELSE NoRequest]
    /\ InitWorld
    /\ eval = [fn |-> "none"]
    /\ InitTasks

SpecSeq == InitSeq /\ [][Next]_vars

(***************************************************************************)
(* The pure functions, each applied to one input.                          *)
(***************************************************************************)
LocalParts == SeqsUpTo(Chars, MaxLen)

ForbiddenPatterns == {{}, {<<"b">>}, {<<":">>}, {<<"a", "b">>}}

AliasCheckInputs ==
    {[fn |-> "room_alias_check", forbidden |-> forbidden, resolved |-> resolved,
      exclusive |-> exclusive, name |-> name, appservice_info |-> appservice_info,
      out |-> None] :
        forbidden \in ForbiddenPatterns,
        resolved \in {{}, {FullAlias(<<"a">>)}},
        exclusive \in {{}, {<<"#", "a">>}},
        name \in LocalParts,
        appservice_info \in {None, Some(AppserviceA)}}

CustomRoomIdCheckInputs ==
    {[fn |-> "custom_room_id_check", forbidden |-> forbidden, name |-> name,
      out |-> None] :
        forbidden \in ForbiddenPatterns, name \in LocalParts}

EventLevels ==
    {EmptyObject, [k \in {"m.room.name"} |-> 50], [k \in {"m.room.tombstone"} |-> 0],
     [k \in {"m.call", "m.poll.response"} |-> 75]}

UserLevels == {EmptyObject, [u \in {"@bob"} |-> 50], [u \in {"@alice"} |-> 0]}

PowerLevelOverrides ==
    {None, Some(RawOther)}
        \cup {Some(RawObject(OverrideObject(events, users, users_default))) :
                events \in {None} \cup {Some(e) : e \in EventLevels},
                users \in {None} \cup {Some(u) : u \in UserLevels},
                users_default \in {None, Some(10)}}

PowerLevelInputs ==
    {[fn |-> "default_power_levels_content", override |-> override,
      visibility |-> visibility, users |-> [u \in users |-> 100], out |-> None] :
        override \in PowerLevelOverrides,
        visibility \in {"public", "private"},
        users \in {{"@alice"}, {"@alice", "@bob"}}}

EvalRoomAliasCheck ==
    /\ eval.fn = "room_alias_check"
    /\ eval.out = None
    /\ eval' = [eval EXCEPT !.out = Some(room_alias_check(
                    eval.forbidden, eval.resolved, eval.exclusive, eval.name,
                    eval.appservice_info))]
    /\ UNCHANGED <<config, shortroomid, timeline, mutex, alias_store, directory,
                   invited, admin_notices, req, pc, loc>>

EvalCustomRoomIdCheck ==
    /\ eval.fn = "custom_room_id_check"
    /\ eval.out = None
    /\ eval' = [eval EXCEPT !.out = Some(custom_room_id_check(eval.forbidden, eval.name))]
    /\ UNCHANGED <<config, shortroomid, timeline, mutex, alias_store, directory,
                   invited, admin_notices, req, pc, loc>>

EvalDefaultPowerLevels ==
    /\ eval.fn = "default_power_levels_content"
    /\ eval.out = None
    /\ eval' = [eval EXCEPT !.out = Some(default_power_levels_content(
                    eval.override, eval.visibility, eval.users))]
    /\ UNCHANGED <<config, shortroomid, timeline, mutex, alias_store, directory,
                   invited, admin_notices, req, pc, loc>>

InitFn ==
    /\ config = BaseConfig
    /\ InitWorld
    /\ req = [t \in Tasks |-> NoRequest]
    /\ InitTasks
    /\ eval \in AliasCheckInputs \cup CustomRoomIdCheckInputs \cup PowerLevelInputs

NextFn == EvalRoomAliasCheck \/ EvalCustomRoomIdCheck \/ EvalDefaultPowerLevels

SpecFn == InitFn /\ [][NextFn]_vars


(***************************************************************************)
(* Claims.                                                                 *)
(***************************************************************************)
\* the rooms whose lock task t holds
HeldBy(t) == {room_id \in DOMAIN mutex : mutex[room_id] = t}

InFlight(t) == pc[t] = "append"

AllDone == \A t \in Tasks : pc[t] = "done"

\* C1: every build_and_append_pdu call that targets a room is made by a task
\* that holds the lock of that very room, so that no two appends to one room
\* are in flight at once; the upgrade's demotion event included, which
\* targets the old room.
C1_AppendHoldsLockOfTargetRoom ==
    /\ \A t \in Tasks :
         InFlight(t) => Unwrap(loc[t].pending).room_id \in HeldBy(t)
    /\ \A t, u \in Tasks :
         (t # u /\ InFlight(t) /\ InFlight(u))
            => Unwrap(loc[t].pending).room_id # Unwrap(loc[u].pending).room_id

\* the create events of a room
CreateEvents(room_id) ==
    {n \in 1..Len(Timeline(room_id)) :
        Timeline(room_id)[n].event_type = "m.room.create"}

\* C2: of two concurrent create-room calls with the same custom room id,
\* exactly one succeeds and the other returns RoomInUse; the two never both
\* append a create event to the room.
C2_OneCreateCallPerCustomId ==
    \A t, u \in Tasks :
        (/\ t # u
         /\ req[t].kind = "create" /\ req[u].kind = "create"
         /\ req[t].room_id # None /\ req[t].room_id = req[u].room_id)
        => /\ Cardinality(CreateEvents(FullRoomId(Unwrap(req[t].room_id)))) <= 1
           /\ (/\ pc[t] = "done" /\ pc[u] = "done"
               /\ Unwrap(loc[t].result) \in {Ok(FullRoomId(Unwrap(req[t].room_id))),
                                              Err("RoomInUse")}
               /\ Unwrap(loc[u].result) \in {Ok(FullRoomId(Unwrap(req[u].room_id))),
                                              Err("RoomInUse")})
              => Unwrap(loc[t].result).ok # Unwrap(loc[u].result).ok

\* C3: a task holds the lock of at most one room at a time, the upgrade
\* between its two rooms included, and holds none once it has returned,
\* with a response or with an error.
C3_AtMostOneLockHeld ==
    \A t \in Tasks :
        /\ Cardinality(HeldBy(t)) <= 1
        /\ pc[t] = "done" => HeldBy(t) = {}

\* an upgrade holds the replacement room's lock, after it held the old room's
C3_Witness ==
    \E t \in Tasks :
        /\ req[t].kind = "upgrade"
        /\ loc[t].tombstone_event_id # None
        /\ HeldBy(t) = loc[t].room_id
        /\ pc[t] = "append"

\* C4: under a fair lock and calls that end, every create-room and
\* upgrade-room call returns, and every lock taken is released.
C4_EveryCallReturns == <>[](AllDone /\ DOMAIN mutex = {})

\* the upgrades of two rooms ran at once and both returned a replacement room
C4_Witness ==
    /\ AllDone
    /\ DOMAIN mutex = {}
    /\ \E t, u \in Tasks :
         /\ req[t].kind = "upgrade" /\ req[t].room_id = RoomA
         /\ req[u].kind = "upgrade" /\ req[u].room_id = RoomB
         /\ Unwrap(loc[t].result).ok /\ Unwrap(loc[u].result).ok

\* a local-part with a ':' or a whitespace character
BadLocalPart(o) ==
    o # None /\ (Contains(Unwrap(o), <<":">>) \/ ContainsWhitespace(Unwrap(o)))

\* the persistent state is what it was when the requests arrived
Untouched ==
    /\ shortroomid = InitialRooms
    /\ timeline = InitialTimeline
    /\ alias_store = [a \in {OldAlias} |-> RoomA]
    /\ directory = {}

\* C5: a create-room call whose custom room id or alias local-part has a
\* ':' or a whitespace character returns InvalidParam, whatever the
\* forbidden-name pattern is, and registers no short id, appends no PDU and
\* binds no alias.
C5_BadLocalPartIsInvalidParam ==
    \A t \in Tasks :
        (/\ req[t].kind = "create"
         /\ pc[t] = "done"
         /\ BadLocalPart(req[t].room_id) \/ BadLocalPart(req[t].room_alias_name))
        => /\ loc[t].result = Some(Err("InvalidParam"))
           /\ Untouched

\* the errors of the validation of a create-room request
ValidationErrors ==
    {"Forbidden", "InvalidParam", "Unknown", "RoomInUse", "Exclusive",
     "UnsupportedRoomVersion"}

\* task t returned a validation error: an error of that kind, before the
\* handler made any append
FailedValidation(t) ==
    /\ req[t].kind = "create"
    /\ pc[t] = "done"
    /\ ~Unwrap(loc[t].result).ok
    /\ Unwrap(loc[t].result).v \in ValidationErrors
    /\ ~loc[t].append_failed
    /\ loc[t].event_id = None

\* C6: a create-room call that fails on a validation error leaves the short
\* ids, the events, the aliases and the directory as they were, so that the
\* custom room id it named is still free for the retry.
C6_ValidationFailureLeavesNoTrace ==
    \A t \in Tasks :
        FailedValidation(t)
        => /\ Untouched
           /\ req[t].room_id # None
              => (custom_room_id_check(config.forbidden_alias_names,
                                        Unwrap(req[t].room_id)).ok
                  => ~get_shortroomid(FullRoomId(Unwrap(req[t].room_id))))

\* default_power_levels_content was applied and returned a content
PowerLevelsOut ==
    /\ eval.fn = "default_power_levels_content"
    /\ eval.out # None
    /\ Unwrap(eval.out).ok

\* the five hardened keys are at level 100 in the content returned
HardenedAt100 ==
    LET content == Unwrap(eval.out).v
    IN  /\ "events" \in DOMAIN content
        /\ \A k \in HardenedKeys :
             k \in DOMAIN content["events"] /\ content["events"][k] = 100

\* the override document names the key k, at its top level or in its events
OverrideNames(k) ==
    /\ eval.override # None
    /\ LET json == Unwrap(eval.override).json
       IN  \/ k \in DOMAIN json
           \/ "events" \in DOMAIN json /\ k \in DOMAIN json["events"]

\* C7, as stated: for every override that names none of the five hardened
\* keys, the content returned has the five keys at level 100.
C7_HardenedUnlessNamed ==
    (PowerLevelsOut /\ \A k \in HardenedKeys : ~OverrideNames(k)) => HardenedAt100

\* C7, amended: for every override that has no top-level "events" entry
\* (and when there is no override), the content returned has the five
\* hardened keys at level 100.
C7_HardenedUnlessEventsOverridden ==
    (PowerLevelsOut /\ ~OverrideNames("events")) => HardenedAt100

\* an override that sets users_default only, and the content it returned
C7_Witness ==
    /\ PowerLevelsOut
    /\ eval.override # None
    /\ DOMAIN Unwrap(eval.override).json = {"users_default"}
    /\ HardenedAt100

\* C8: without an override, a public room has every call key at level 50,
\* a room that is not public has no call key set, and the two poll-response
\* keys are at level 0 in both.
C8_CallAndPollLevels ==
    (PowerLevelsOut /\ eval.override = None)
    => LET events == Unwrap(eval.out).v["events"]
       IN  /\ \A k \in PollKeys : k \in DOMAIN events /\ events[k] = 0
           /\ eval.visibility = "public"
              => \A k \in CallKeys : k \in DOMAIN events /\ events[k] = 50
           /\ eval.visibility # "public"
              => \A k \in CallKeys : k \notin DOMAIN events

\* the policy was applied to a private room without an override
C8_Witness ==
    /\ PowerLevelsOut
    /\ eval.override = None
    /\ eval.visibility = "private"
    /\ "m.poll.response" \in DOMAIN Unwrap(eval.out).v["events"]

\* create-room call t has appended its power-levels event, the third event
\* of the new room
SentPowerLevels(t) ==
    /\ req[t].kind = "create"
    /\ loc[t].room_id # None
    /\ Len(Timeline(Unwrap(loc[t].room_id))) >= 3
    /\ Timeline(Unwrap(loc[t].room_id))[3].event_type = "m.room.power_levels"

\* the users map of that event is the creator at level 100, and with the
\* preset trusted_private_chat every invitee at level 100
SeededUsers(t) ==
    LET users == Timeline(Unwrap(loc[t].room_id))[3].content["users"]
        seeded == IF Preset(req[t]) = "trusted_private_chat"
                  THEN {req[t].sender_user} \cup Range(req[t].invite)
                  ELSE {req[t].sender_user}
    IN  users = [u \in seeded |-> 100]

\* the override document of the request has a top-level "users" entry
OverridesUsers(r) ==
    /\ r.power_level_content_override # None
    /\ "users" \in DOMAIN Unwrap(r.power_level_content_override).json

\* C9, as stated: the power-levels event of every create-room call has the
\* creator at level 100, with the preset trusted_private_chat every invitee
\* too, and nobody else.
C9_UsersSeeded ==
    \A t \in Tasks : SentPowerLevels(t) => SeededUsers(t)

\* C9, amended: when the override document has no top-level "users" entry
\* (or there is no override), the power-levels event of a create-room call
\* has the creator at level 100, with the preset trusted_private_chat every
\* invitee too, and nobody else.
C9_UsersSeededUnlessOverridden ==
    \A t \in Tasks :
        (SentPowerLevels(t) /\ ~OverridesUsers(req[t])) => SeededUsers(t)

\* a trusted private chat with an invitee and an override that sets other
\* keys has sent its power levels
C9_Witness ==
    \E t \in Tasks :
        /\ SentPowerLevels(t)
        /\ req[t].preset = Some("trusted_private_chat")
        /\ req[t].invite # << >>
        /\ req[t].power_level_content_override # None
        /\ ~OverridesUsers(req[t])
        /\ SeededUsers(t)

\* upgrade call t has appended the create event of its replacement room
SentReplacementCreate(t) ==
    /\ req[t].kind = "upgrade"
    /\ Timeline(NewRoomId(t)) # << >>

\* C10: the create event an upgrade appends to the replacement room has a
\* predecessor with the old room's id and the id this call's tombstone
\* append returned, which is a tombstone of the old room that names the
\* replacement room; it has the requested room version; and it has a
\* creator, the sender, exactly for the versions 1 to 10.
C10_ReplacementCreateEvent ==
    \A t \in Tasks :
        SentReplacementCreate(t)
        => LET create == Timeline(NewRoomId(t))[1]
               content == create.content
               predecessor == content["predecessor"]
               tombstone == Timeline(req[t].room_id)[predecessor.event_id.n]
           IN  /\ create.event_type = "m.room.create"
               /\ "predecessor" \in DOMAIN content
               /\ predecessor.room_id = req[t].room_id
               /\ Some(predecessor.event_id) = loc[t].tombstone_event_id
               /\ predecessor.event_id.room_id = req[t].room_id
               /\ tombstone.event_type = "m.room.tombstone"
               /\ tombstone.sender = req[t].sender_user
               /\ tombstone.content.replacement_room = NewRoomId(t)
               /\ content["room_version"] = req[t].new_version
               /\ "creator" \in DOMAIN content <=> req[t].new_version \in LegacyVersions
               /\ "creator" \in DOMAIN content => content["creator"] = req[t].sender_user

\* two upgrades ran at once, one to version 11 and one to version 10, and
\* each has sent the create event of its replacement room
C10_Witness ==
    \E t, u \in Tasks :
        /\ SentReplacementCreate(t) /\ req[t].new_version = "11"
        /\ SentReplacementCreate(u) /\ req[u].new_version = "10"
        /\ "creator" \in DOMAIN Timeline(NewRoomId(u))[1].content

\* the power-levels events of a room before its n-th event
PowerLevelsBefore(room_id, n) ==
    {m \in 1..(n - 1) : /\ Timeline(room_id)[m].event_type = "m.room.power_levels"
                        /\ Timeline(room_id)[m].state_key = Some("")}

\* upgrade call t returned the replacement room
Upgraded(t) ==
    /\ req[t].kind = "upgrade"
    /\ pc[t] = "done"
    /\ Unwrap(loc[t].result).ok

\* C11: when an upgrade has returned, the power-levels event it sent to the
\* old room is the old room's power levels as they were right before it,
\* with events_default and invite set to the greater of 50 and
\* users_default + 1 and every other field as it was; other writers of the
\* old room's power levels included.
C11_DemotionOfCurrentPowerLevels ==
    \A t \in Tasks :
        Upgraded(t)
        => LET tl == Timeline(req[t].room_id)
               n == Unwrap(loc[t].event_id).n
               before == PowerLevelsBefore(req[t].room_id, n)
               last == CHOOSE m \in before : \A k \in before : k <= m
               old == PowerLevelsFromJson(tl[last].content)
               new == PowerLevelsFromJson(tl[n].content)
               new_level == IF old.users_default >= 50
                            THEN old.users_default + 1 ELSE 50
           IN  /\ Unwrap(loc[t].event_id).room_id = req[t].room_id
               /\ tl[n].event_type = "m.room.power_levels"
               /\ before # {}
               /\ new.events_default = new_level
               /\ new.invite = new_level
               /\ \A k \in DOMAIN old \ {"events_default", "invite"} : new[k] = old[k]

\* upgrade call t has returned, and the old room's power levels have
\* users_default at Int::MAX
UpgradedMaxedRoom(t) ==
    /\ req[t].kind = "upgrade"
    /\ pc[t] = "done"
    /\ LET old == room_state_get(req[t].room_id, "m.room.power_levels", "")
       IN  /\ old # None
           /\ PowerLevelsFromJson(Unwrap(old).content).users_default = Int_MAX

\* C12: the upgrade of a room whose users_default is Int::MAX does not
\* succeed and sends no power-levels event to the old room; when it got as
\* far as the demotion (the replacement room has its power levels), it
\* returns BadJson.
C12_NoWrapAround ==
    \A t \in Tasks :
        UpgradedMaxedRoom(t)
        => LET tl == Timeline(req[t].room_id)
           IN  /\ ~Unwrap(loc[t].result).ok
               /\ \A n \in (Len(InitialTimeline[req[t].room_id]) + 1)..Len(tl) :
                     tl[n].event_type # "m.room.power_levels"
               /\ room_state_get(NewRoomId(t), "m.room.power_levels", "") # None
                  => loc[t].result = Some(Err("BadJson"))

\* the upgrade of room C got as far as the demotion and returned BadJson
C12_Witness ==
    \E t \in Tasks :
        /\ UpgradedMaxedRoom(t)
        /\ req[t].room_id = RoomC
        /\ room_state_get(NewRoomId(t), "m.room.power_levels", "") # None
        /\ loc[t].result = Some(Err("BadJson"))

\* task t waits for an append of a state event that it makes with the guard
\* of the room the event goes to
GuardedInFlight(t) ==
    /\ InFlight(t)
    /\ Unwrap(loc[t].pending).state_lock = Some(Unwrap(loc[t].pending).room_id)
    /\ Unwrap(loc[t].pending).pdu.state_key # None

\* the appends made with the guard of their room never overlap
NoOverlap ==
    \A t, u \in Tasks :
        (t # u /\ GuardedInFlight(t) /\ GuardedInFlight(u))
            => Unwrap(loc[t].pending).room_id # Unwrap(loc[u].pending).room_id

\* the latest event of the sequence tl with this type and state key
CurrentIn(tl, event_type, state_key) ==
    LET at == {i \in 1..Len(tl) :
                 tl[i].event_type = event_type /\ tl[i].state_key = Some(state_key)}
    IN  IF at = {} THEN None
        ELSE Some(tl[CHOOSE i \in at : \A j \in at : j <= i])

\* when such an append returns an event id, the event is the room's current
\* state for its type and state key, with the content that was sent
LastAppendIsCurrent ==
    \A t \in Tasks :
        (GuardedInFlight(t) /\ pc'[t] # "append" /\ pc'[t] # "done")
        => LET p == Unwrap(loc[t].pending)
               current == CurrentIn(timeline'[p.room_id], p.pdu.event_type,
                                    Unwrap(p.pdu.state_key))
           IN  /\ current # None
               /\ Some(Unwrap(current).event_id) = loc'[t].event_id
               /\ Unwrap(current).content = p.pdu.content

\* C13: the state events appended to one room, each with the room's lock
\* held, never overlap, so that they complete in the order they were issued,
\* and each is the current state of its type and state key when it
\* completes: the current state is the append that was issued last.
C13_LastIssuedAppendIsCurrent == []NoOverlap /\ [][LastAppendIsCurrent]_vars

\* two handlers have each sent a power-levels event to room A under its
\* lock, and the current power levels are the later event
C13_Witness ==
    \E t, u \in Tasks :
        /\ t # u
        /\ req[t].kind = "write" /\ req[u].kind = "write"
        /\ pc[t] = "done" /\ pc[u] = "done"
        /\ loc[t].event_id # None /\ loc[u].event_id # None
        /\ Unwrap(loc[t].event_id).n < Unwrap(loc[u].event_id).n
        /\ Some(Unwrap(room_state_get(RoomA, "m.room.power_levels", "")).event_id)
              = loc[u].event_id

\* create-room call t returned a room
Created(t) ==
    /\ req[t].kind = "create"
    /\ pc[t] = "done"
    /\ Unwrap(loc[t].result).ok

\* the request leaves the join rules and the guest access to the preset
PresetDecides(r) ==
    \A k \in 1..Len(r.initial_state) :
        r.initial_state[k].event_type \notin {"m.room.join_rules", "m.room.guest_access"}

\* the content of the room's current state event of this type
StateContent(room_id, event_type) ==
    Unwrap(room_state_get(room_id, event_type, "")).content

\* C14: a create-room call that succeeds without a custom room id returns
\* the id generated for it; with public visibility the room is published to
\* the directory, once (one admin notice when notices are on) and with the
\* room's lock released, and with no preset given its join rules are public
\* and its guest access forbidden; with any preset other than public_chat
\* the join rules are invite and the guest access can_join.
C14_PublicRoom ==
    \A t \in Tasks :
        /\ (req[t].kind = "create" /\ loc[t].room_id # None
               /\ Unwrap(loc[t].room_id) \in directory)
           => HeldBy(t) = {}
        /\ (Created(t) /\ PresetDecides(req[t]))
           => LET r == req[t]
                  room_id == Unwrap(loc[t].result).v
                  join_rule == StateContent(room_id, "m.room.join_rules").join_rule
                  guest_access == StateContent(room_id, "m.room.guest_access").guest_access
              IN  /\ r.room_id = None
                     => room_id = NewRoomId(t) /\ room_id \notin InitialRooms
                  /\ r.visibility = "public"
                     => /\ room_id \in directory
                        /\ admin_notices = IF config.admin_room_notices THEN 1 ELSE 0
                  /\ r.visibility # "public" => room_id \notin directory
                  /\ (r.visibility = "public" /\ r.preset = None)
                     => join_rule = "public" /\ guest_access = "forbidden"
                  /\ (r.visibility # "public" /\ r.preset = None)
                     => join_rule = "invite" /\ guest_access = "can_join"
                  /\ (r.preset # None /\ r.preset # Some("public_chat"))
                     => join_rule = "invite" /\ guest_access = "can_join"

\* a public room without a custom id and without a preset was created
C14_Witness ==
    \E t \in Tasks :
        /\ Created(t)
        /\ req[t].room_id = None /\ req[t].preset = None
        /\ req[t].visibility = "public"
        /\ NewRoomId(t) \in directory
        /\ StateContent(NewRoomId(t), "m.room.join_rules").join_rule = "public"

\* create-room call t has made all its appends
AppendsDone(t) ==
    /\ req[t].kind = "create"
    /\ pc[t] \in {"cr_invite", "cr_public"} \/ Created(t)

\* every entry of the request's initial_state is an event
AllValid(r) == \A k \in 1..Len(r.initial_state) : r.initial_state[k].valid

\* the entries of initial_state that are to be sent: all but those written
\* {} and, when the server disables encryption, the encryption events
ToBeSent(r) ==
    LET Sent(event) ==
            /\ ~event.content.literal
            /\ ~(event.event_type = "m.room.encryption" /\ ~config.allow_encryption)
    IN  SelectSeq(r.initial_state, Sent)

\* the events of the room before the initial_state ones
BeforeInitialState(r) == IF r.room_alias_name # None THEN 7 ELSE 6

\* the room of a call that made all its appends holds, after the preset's
\* events, the entries to be sent, in list order, with the state key ""
\* where the entry has none, and then the name and the topic
InitialStateSent ==
    \A t \in Tasks :
        AppendsDone(t)
        => LET r == req[t]
               tl == Timeline(Unwrap(loc[t].room_id))
               sent == ToBeSent(r)
               base == BeforeInitialState(r)
               after == base + Len(sent)
               named == IF r.name # None THEN 1 ELSE 0
               topical == IF r.topic # None THEN 1 ELSE 0
           IN  /\ Len(tl) = after + named + topical
               /\ \A k \in 1..Len(sent) :
                    /\ tl[base + k].event_type = sent[k].event_type
                    /\ tl[base + k].content = sent[k].content.json
                    /\ tl[base + k].state_key =
                          IF sent[k].state_key = None THEN Some("") ELSE sent[k].state_key
               /\ r.name # None => tl[after + 1].event_type = "m.room.name"
               /\ r.topic # None => tl[after + named + 1].event_type = "m.room.topic"

\* with every entry an event, the only error the handler itself raises
\* between its appends is the power-level override's: skipping an entry
\* is none
SkipRaisesNoError ==
    \A t \in Tasks :
        (pc[t] = "cr_events" /\ pc'[t] = "done" /\ AllValid(req[t]))
        => /\ Len(Timeline(Unwrap(loc[t].room_id))) = 2
           /\ req[t].power_level_content_override # None

\* C15: an initial_state entry whose content is written {} is not appended
\* and raises no error, an encryption entry is not appended when the server
\* disables encryption, every other entry is appended in list order with
\* its state key defaulting to "", and the name and the topic follow.
C15_InitialStateSkips == []InitialStateSent /\ [][SkipRaisesNoError]_vars

\* with encryption disabled, a room was created from a list of an
\* encryption event and an event written {}: neither was sent, the name
\* and the topic were
C15_Witness ==
    \E t \in Tasks :
        /\ Created(t)
        /\ ~config.allow_encryption
        /\ Len(req[t].initial_state) = 2
        /\ req[t].initial_state[1].event_type = "m.room.encryption"
        /\ req[t].initial_state[2].content.literal
        /\ req[t].name # None
        /\ Len(Timeline(Unwrap(loc[t].room_id))) = 8

\* create-room call t is at the invite of its next invitee
Inviting(t) ==
    /\ req[t].kind = "create"
    /\ pc[t] = "cr_invite"
    /\ loc[t].i <= Len(req[t].invite)

\* a call that is past its invites has tried every invitee
EveryInviteeTried ==
    \A t \in Tasks :
        (req[t].kind = "create" /\ pc[t] = "cr_public")
            => loc[t].i = Len(req[t].invite) + 1

\* an invite, delivered or not, leaves the call running, on to the next
\* invitee, and nothing but the set of delivered invites differs
InviteNeverEndsCall ==
    \A t \in Tasks :
        (Inviting(t) /\ loc'[t] # loc[t])
        => /\ pc'[t] = "cr_invite"
           /\ loc'[t] = [loc[t] EXCEPT !.i = loc[t].i + 1]
           /\ UNCHANGED <<shortroomid, timeline, mutex, alias_store, directory>>

BootstrapTypes(r) ==
    <<"m.room.create", "m.room.member", "m.room.power_levels">>
        \o (IF r.room_alias_name # None THEN <<"m.room.canonical_alias">> ELSE << >>)
        \o <<"m.room.join_rules", "m.room.history_visibility", "m.room.guest_access">>
        \o [k \in 1..Len(ToBeSent(r)) |-> ToBeSent(r)[k].event_type]
        \o (IF r.name # None THEN <<"m.room.name">> ELSE << >>)
        \o (IF r.topic # None THEN <<"m.room.topic">> ELSE << >>)

\* an append of create-room call t failed
CreateAppendFailed(t) ==
    /\ req[t].kind = "create"
    /\ pc[t] = "done"
    /\ loc[t].append_failed

\* C17: when an append of a create-room call fails, the call returns the
\* append's error, the room holds the events of the appends before it and
\* no other (a proper prefix of the fixed sequence), the room's lock is
\* free, and no invite was sent, no alias bound and nothing published.
C17_FailedAppendLeavesPrefix ==
    \A t \in Tasks :
        CreateAppendFailed(t)
        => LET room_id == Unwrap(loc[t].room_id)
               tl == Timeline(room_id)
               types == BootstrapTypes(req[t])
           IN  /\ loc[t].result = Some(Err("Forbidden"))
               /\ Len(tl) = loc[t].i - 2
               /\ Len(tl) < Len(types)
               /\ \A k \in 1..Len(tl) :
                    tl[k].event_type = types[k] /\ tl[k].event_id.n = k
               /\ room_id \notin DOMAIN mutex
               /\ \A user \in Range(req[t].invite) : <<room_id, user>> \notin invited
               /\ local_aliases_for_room(room_id) = {}
               /\ room_id \notin directory

\* the append of the canonical alias event failed: the room holds the three
\* events before it
C17_Witness ==
    \E t \in Tasks :
        /\ CreateAppendFailed(t)
        /\ req[t].room_alias_name # None
        /\ Len(Timeline(Unwrap(loc[t].room_id))) = 3

\* create-room call t is between taking the room's lock and its release
Bootstrapping(t) ==
    /\ req[t].kind = "create"
    /\ pc[t] \in {"cr_prepare", "cr_events", "append"}

\* the events create-room call t has sent so far: the last of them is the
\* one whose id its last append returned
SentSoFar(t) ==
    IF loc[t].event_id = None THEN << >>
    ELSE LET tl == Timeline(Unwrap(loc[t].room_id))
             n == Unwrap(loc[t].event_id).n
             sent == IF pc[t] = "append" \/ loc[t].append_failed THEN loc[t].i - 2
                     ELSE IF pc[t] = "cr_events" THEN loc[t].i - 1
                     ELSE IF /\ pc[t] = "done"
                             /\ ~Unwrap(loc[t].result).ok
                             /\ Unwrap(loc[t].result).v \in {"InvalidParam", "BadJson"}
                     THEN loc[t].i - 1
                     ELSE Len(BootstrapTypes(req[t]))
         IN  [k \in 1..sent |-> tl[n - sent + k]]

\* C18: a create-room call holds the new room's lock from its first append
\* to its last, and the events it sends are, in this order: create, the
\* creator's join with the sender as state key, power levels, the canonical
\* alias if an alias was asked for, join rules, history visibility (shared),
\* guest access, the initial_state events, the name and the topic if
\* supplied; all of them once the call succeeds.  The first event of the
\* room is a create event.
C18_FixedOrderUnderOneLock ==
    \A t \in Tasks :
        /\ Bootstrapping(t) => Unwrap(loc[t].room_id) \in HeldBy(t)
        /\ (req[t].kind = "create" /\ loc[t].event_id # None)
           => LET sent == SentSoFar(t)
                  types == BootstrapTypes(req[t])
              IN  /\ Len(sent) <= Len(types)
                  /\ Created(t) => Len(sent) = Len(types)
                  /\ \A k \in 1..Len(sent) :
                       /\ sent[k].event_type = types[k]
                       /\ types[k] = "m.room.member"
                          => sent[k].state_key = Some(req[t].sender_user)
                       /\ types[k] = "m.room.history_visibility"
                          => sent[k].content.history_visibility = "shared"
                       /\ k > 1 => sent[k].event_id.n = sent[k - 1].event_id.n + 1
                  /\ Timeline(Unwrap(loc[t].room_id))[1].event_type = "m.room.create"

\* a room was created with two initial_state events, a name and a topic: ten
\* events
C18_Witness ==
    \E t \in Tasks :
        /\ Created(t)
        /\ Len(SentSoFar(t)) >= 10
        /\ SentSoFar(t)[1].event_type = "m.room.create"

\* create-room call t takes a step
CreateStep(t) ==
    /\ req[t].kind = "create"
    /\ pc'[t] # pc[t] \/ loc'[t] # loc[t]

\* a create-room call past its appends holds no lock
NoLockAfterAppends ==
    \A t \in Tasks :
        (req[t].kind = "create" /\ pc[t] \in {"cr_invite", "cr_public"})
            => HeldBy(t) = {}

\* a step of a create-room call that sends an invite, binds an alias or
\* publishes the room is made with no lock held, by a call that is past its
\* appends; and such a call sends no PDU any more
SideEffectsAfterRelease ==
    \A t \in Tasks :
        /\ (CreateStep(t) /\ (invited' # invited \/ alias_store' # alias_store
                                \/ directory' # directory))
           => /\ pc[t] \in {"cr_invite", "cr_public"}
              /\ HeldBy(t) = {}
              /\ HeldBy(t)' = {}
        /\ (CreateStep(t) /\ pc[t] \in {"cr_invite", "cr_public"})
           => pc'[t] \in {"cr_invite", "cr_public", "done"}

\* C19: create-room releases the room's lock before its first invite, alias
\* binding or directory publication, holds no lock while any of them runs,
\* and appends no PDU after the release.
C19_LockReleasedBeforeSideEffects ==
    []NoLockAfterAppends /\ [][SideEffectsAfterRelease]_vars

\* a create-room call is about to bind its alias while the other call holds
\* a lock
C19_Witness ==
    \E t, u \in Tasks :
        /\ req[t].kind = "create"
        /\ pc[t] = "cr_invite"
        /\ loc[t].i > Len(req[t].invite)
        /\ loc[t].alias # None
        /\ HeldBy(t) = {}
        /\ HeldBy(u) # {}

\* create-room call t has returned, after it sent every event of its
\* sequence to the new room
ReturnedAfterAppends(t) ==
    /\ req[t].kind = "create"
    /\ pc[t] = "done"
    /\ loc[t].room_id # None
    /\ ~loc[t].append_failed
    /\ Len(Timeline(Unwrap(loc[t].room_id))) = Len(BootstrapTypes(req[t]))

\* C20: a create-room call that has made all its appends succeeds, whatever
\* becomes of its invites, of its alias binding and of the directory
\* publication.
C20_SideEffectsBestEffort ==
    \A t \in Tasks :
        ReturnedAfterAppends(t)
            => Unwrap(loc[t].result).ok

\* upgrade call t ends with an error in this step
UpgradeFails(t) ==
    /\ req[t].kind = "upgrade"
    /\ pc[t] # "done"
    /\ pc'[t] = "done"
    /\ ~Unwrap(loc'[t].result).ok

\* the step in which an upgrade call fails changes no room, no alias and no
\* short id, and leaves the call without a lock; a call that has returned
\* takes no further step
FailureKeepsEffects ==
    \A t \in Tasks :
        /\ UpgradeFails(t)
           => /\ timeline' = timeline
              /\ alias_store' = alias_store
              /\ shortroomid' = shortroomid
              /\ \A room_id \in DOMAIN mutex' : mutex'[room_id] # t
              /\ \A room_id \in DOMAIN mutex' :
                    room_id \in DOMAIN mutex /\ mutex[room_id] = mutex'[room_id]
        /\ pc[t] = "done" => (pc'[t] = "done" /\ loc'[t] = loc[t])

\* an upgrade call that has failed holds no lock, and what it did before is
\* there: the tombstone when it got past it, the replacement room's events it
\* sent, the old room's events
FailedUpgradeState ==
    \A t \in Tasks :
        (req[t].kind = "upgrade" /\ pc[t] = "done" /\ ~Unwrap(loc[t].result).ok)
        => /\ HeldBy(t) = {}
           /\ loc[t].tombstone_event_id # None
              => LET e == Unwrap(loc[t].tombstone_event_id)
                 IN  /\ e.room_id = req[t].room_id
                     /\ e.n <= Len(Timeline(req[t].room_id))
                     /\ Timeline(req[t].room_id)[e.n].event_type = "m.room.tombstone"
           /\ \A n \in 1..Len(InitialTimeline[req[t].room_id]) :
                 Timeline(req[t].room_id)[n] = InitialTimeline[req[t].room_id][n]

\* C21: when a step of upgrade-room fails, the call returns the error and
\* takes no later step; the tombstone, the events sent to the replacement
\* room and the aliases moved stay as they were, and the lock the call held is
\* released.
C21_UpgradeFailureKeepsEffects ==
    []FailedUpgradeState /\ [][FailureKeepsEffects]_vars

\* an upgrade has failed at the demotion of the old room: the tombstone is
\* in the old room, the replacement room has events and the old room's alias
\* is bound to it
C21_Witness ==
    \E t \in Tasks :
        /\ req[t].kind = "upgrade"
        /\ pc[t] = "done"
        /\ ~Unwrap(loc[t].result).ok
        /\ loc[t].tombstone_event_id # None
        /\ Len(Timeline(NewRoomId(t))) > 2
        /\ resolve_local_alias(OldAlias) = Some(NewRoomId(t))
        /\ HeldBy(t) = {}

\* the local aliases a room has when the requests arrive
AliasesAtStart(room_id) == IF room_id = RoomA THEN {OldAlias} ELSE {}

\* the replacement rooms of the upgrade calls
ReplacementRooms == {NewRoomId(t) : t \in {u \in Tasks : req[u].kind = "upgrade"}}

\* C22: alias migration never loses an alias: when an upgrade call has
\* returned, with or without an error, every alias the old room had is bound
\* to the old room or to the replacement room, and the call has no alias left
\* between its removal and its binding.
C22_AliasMigrationBestEffort ==
    \A t \in Tasks :
        (req[t].kind = "upgrade" /\ pc[t] = "done")
        => /\ \A a \in AliasesAtStart(req[t].room_id) :
                 /\ resolve_local_alias(a) # None
                 /\ Unwrap(resolve_local_alias(a))
                       \in {req[t].room_id} \cup ReplacementRooms
           /\ loc[t].alias_moving = None

\* the nine state types an upgrade carries over, in their order
NineTypes ==
    <<"m.room.server_acl", "m.room.encryption", "m.room.name", "m.room.avatar",
      "m.room.topic", "m.room.guest_access", "m.room.history_visibility",
      "m.room.join_rules", "m.room.power_levels">>

\* the current value of a state type, with the empty state key, in the room
\* as it was when the request arrived
ValueAtStart(room_id, event_type) ==
    CurrentIn(InitialTimeline[room_id], event_type, "")

RECURSIVE PresentFrom(_, _)
\* the types of the list, from its k-th on, that the room has a value of
PresentFrom(room_id, k) ==
    IF k > Len(NineTypes) THEN << >>
    ELSE (IF ValueAtStart(room_id, NineTypes[k]) = None THEN << >>
          ELSE <<NineTypes[k]>>) \o PresentFrom(room_id, k + 1)

\* what upgrade call t has sent to the replacement room after its create
\* event and the join
Transferred(t) ==
    LET tl == Timeline(NewRoomId(t))
    IN  IF Len(tl) <= 2 THEN << >> ELSE SubSeq(tl, 3, Len(tl))

\* upgrade call t is past its loop over the transferable types
PastTransfer(t) ==
    \/ pc[t] \in {"up_set_alias", "up_done"}
    \/ pc[t] = "up_aliases"
    \/ pc[t] = "append" /\ loc[t].ret = "up_done"
    \/ pc[t] = "done" /\ Unwrap(loc[t].result).ok

\* what an upgrade sends to the replacement room after the join is, in the
\* order of the list, an event for each listed type the old room has a value
\* of, with that value's content and the empty state key, and nothing else;
\* each is sent with the replacement room's lock held; past the loop all of
\* them are sent
TransfersListedState ==
    \A t \in Tasks :
        req[t].kind = "upgrade"
        => LET present == PresentFrom(req[t].room_id, 1)
               sent == Transferred(t)
           IN  /\ Len(sent) <= Len(present)
               /\ \A n \in 1..Len(sent) :
                     /\ sent[n].event_type = present[n]
                     /\ sent[n].state_key = Some("")
                     /\ sent[n].content
                          = Unwrap(ValueAtStart(req[t].room_id, present[n])).content
               /\ (pc[t] = "append" /\ loc[t].ret = "up_transfer")
                  => /\ Unwrap(loc[t].pending).room_id = NewRoomId(t)
                     /\ Unwrap(loc[t].pending).state_lock = Some(NewRoomId(t))
                     /\ NewRoomId(t) \in DOMAIN mutex
                     /\ mutex[NewRoomId(t)] = t
               /\ PastTransfer(t) => Len(sent) = Len(present)

\* upgrade call t has returned the error of a room without the event the
\* handler looked for
EndedBadDatabase(t) ==
    /\ req[t].kind = "upgrade"
    /\ pc[t] = "done"
    /\ ~Unwrap(loc[t].result).ok
    /\ Unwrap(loc[t].result).v = "BadDatabase"

\* C23: an upgrade copies the old room's current value of each of the nine
\* listed types, in the list's order, to the replacement room under the
\* replacement room's lock, and copies nothing else; a type the old room has
\* no value of is skipped and never makes the call fail.
C23_TransferableStateCopied ==
    /\ TransfersListedState
    /\ \A t \in Tasks : ~EndedBadDatabase(t)

\* C23, as the code has it: the same, but a skipped type makes the call fail
\* in one case: an old room without power levels is skipped by the loop and
\* then ends the call at the demotion of the old room, with the
\* bad-database error, after the replacement room got its events.
C23_TransferableStateCopiedButPowerLevels ==
    /\ TransfersListedState
    /\ \A t \in Tasks :
         /\ EndedBadDatabase(t)
            => /\ ValueAtStart(req[t].room_id, "m.room.power_levels") = None
               /\ Len(Transferred(t)) = Len(PresentFrom(req[t].room_id, 1))
         /\ (req[t].kind = "upgrade" /\ pc[t] = "done"
                /\ ValueAtStart(req[t].room_id, "m.room.power_levels") = None)
            => ~Unwrap(loc[t].result).ok

\* the upgrade of room A has succeeded: room A has no name, avatar or topic,
\* and the replacement room got the four listed types room A has
C23_Witness ==
    \E t \in Tasks :
        /\ Upgraded(t)
        /\ req[t].room_id = RoomA
        /\ ValueAtStart(RoomA, "m.room.name") = None
        /\ Len(Transferred(t)) = 4
        /\ Transferred(t)[4].event_type = "m.room.power_levels"

\* default_power_levels_content was applied to an override document
OverrideApplied ==
    /\ eval.fn = "default_power_levels_content"
    /\ eval.out # None
    /\ eval.override # None

\* the content computed for the same visibility and users without an override
ComputedContent == default_power_levels_content(None, eval.visibility, eval.users).v

\* C24: the override is applied last, top-level key by key: every top-level
\* key of the override has exactly the override's value in the result, the
\* hardened entries of the computed value gone with it; every other key has
\* its computed value; and an override that is no JSON object gives BadJson
\* and no content.
C24_OverrideShallowAndLast ==
    OverrideApplied
    => LET raw == Unwrap(eval.override)
           out == Unwrap(eval.out)
       IN  IF raw.is_object
           THEN /\ out.ok
                /\ DOMAIN out.v = DOMAIN ComputedContent \cup DOMAIN raw.json
                /\ \A k \in DOMAIN raw.json : out.v[k] = raw.json[k]
                /\ \A k \in DOMAIN ComputedContent \ DOMAIN raw.json :
                      out.v[k] = ComputedContent[k]
           ELSE /\ ~out.ok
                /\ out.v = "BadJson"

\* an override whose events object sets the tombstone level to 0 was applied:
\* the events of the result are the override's, without the hardened entries
C24_Witness ==
    /\ OverrideApplied
    /\ Unwrap(eval.override).is_object
    /\ "events" \in DOMAIN Unwrap(eval.override).json
    /\ Unwrap(eval.out).ok
    /\ DOMAIN Unwrap(eval.out).v["events"] = {"m.room.tombstone"}
    /\ Unwrap(eval.out).v["events"]["m.room.tombstone"] = 0

\* room_alias_check was applied to a local-part
AliasChecked ==
    /\ eval.fn = "room_alias_check"
    /\ eval.out # None

\* the alias of the local-part under check: '#', the local-part, ':', the
\* server name
AliasOf(name) == <<"#">> \o name \o <<":">> \o server_name

\* the rules of alias validation, in their order, each with whether the
\* input under check violates it and the error it gives
AliasRules ==
    LET name == eval.name
        full == AliasOf(name)
    IN  <<[violated |-> \E i \in 1..Len(name) : name[i] = ":",
           kind |-> "InvalidParam"],
          [violated |-> \E i \in 1..Len(name) : name[i] \in Whitespace,
           kind |-> "InvalidParam"],
          [violated |-> is_match(eval.forbidden, name),
           kind |-> "Unknown"],
          [violated |-> full \in eval.resolved,
           kind |-> "RoomInUse"],
          [violated |-> IF eval.appservice_info = None
                        THEN is_match(eval.exclusive, full)
                        ELSE ~is_match(Unwrap(eval.appservice_info).aliases, full),
           kind |-> "Exclusive"]>>

\* C25: alias validation returns the error of the first rule violated, in
\* the order ':', whitespace, forbidden name, alias in use, namespace; and
\* the alias '#' local-part ':' server name when none is violated.
C25_AliasRulesInOrder ==
    AliasChecked
    => LET out == Unwrap(eval.out)
           broken == {i \in 1..Len(AliasRules) : AliasRules[i].violated}
       IN  IF broken = {}
           THEN out.ok /\ out.v = AliasOf(eval.name)
           ELSE /\ ~out.ok
                /\ out.v = AliasRules[CHOOSE i \in broken :
                                         \A j \in broken : i <= j].kind

\* a caller that is no appservice asked for an alias that resolves to a room
\* and lies in an exclusive namespace: the answer is RoomInUse
C25_Witness ==
    /\ AliasChecked
    /\ eval.appservice_info = None
    /\ AliasOf(eval.name) \in eval.resolved
    /\ is_match(eval.exclusive, AliasOf(eval.name))
    /\ ~Unwrap(eval.out).ok
    /\ Unwrap(eval.out).v = "RoomInUse"

\* create-room call t, which asked for the alias, has returned its room
CreatedWithAlias(t, alias) ==
    /\ Created(t)
    /\ loc[t].alias = Some(alias)

\* the room of create-room call t has a canonical-alias event that names the
\* alias
NamesAlias(t, alias) ==
    LET e == room_state_get(Unwrap(loc[t].room_id), "m.room.canonical_alias", "")
    IN  e # None /\ Unwrap(e).content.alias = Some(alias)

\* C26: of two create-room calls for distinct rooms that asked for the same
\* alias, at most one has sent a canonical-alias event that names it and
\* returned its room; and the alias of a call that returned its room resolves
\* to that room.
C26_AliasOfOneRoom ==
    \A t \in Tasks :
        \A alias \in {FullAlias(<<"b">>)} :
            /\ \A u \in Tasks \ {t} :
                  (/\ CreatedWithAlias(t, alias) /\ CreatedWithAlias(u, alias)
                   /\ loc[t].room_id # loc[u].room_id)
                  => ~(NamesAlias(t, alias) /\ NamesAlias(u, alias))
            /\ CreatedWithAlias(t, alias)
               => resolve_local_alias(alias) = loc[t].room_id

\* the tombstones in the old room of upgrade call t that name the call's
\* replacement room
TombstonesOf(t) ==
    LET tl == Timeline(req[t].room_id)
    IN  {n \in 1..Len(tl) :
           /\ tl[n].event_type = "m.room.tombstone"
           /\ tl[n].state_key = Some("")
           /\ tl[n].sender = req[t].sender_user
           /\ tl[n].content.replacement_room = NewRoomId(t)}

\* the tombstone append of upgrade call t failed
TombstoneFailed(t) ==
    /\ req[t].kind = "upgrade"
    /\ pc[t] = "done"
    /\ loc[t].append_failed
    /\ loc[t].event_id = None

\* a replacement room that has an event, or is about to get one, has its
\* tombstone in the old room, sent by the same call, and the call knows its
\* event id; a call whose tombstone failed left no tombstone and sent nothing
\* to the replacement room
TombstoneBeforeReplacement ==
    \A t \in Tasks :
        req[t].kind = "upgrade"
        => /\ (\/ Timeline(NewRoomId(t)) # << >>
               \/ (pc[t] = "append"
                     /\ Unwrap(loc[t].pending).room_id = NewRoomId(t)))
              => /\ loc[t].tombstone_event_id # None
                 /\ Unwrap(loc[t].tombstone_event_id).room_id = req[t].room_id
                 /\ Unwrap(loc[t].tombstone_event_id).n \in TombstonesOf(t)
           /\ TombstoneFailed(t)
              => /\ Timeline(NewRoomId(t)) = << >>
                 /\ TombstonesOf(t) = {}
                 /\ loc[t].result = Some(Err("Forbidden"))

\* the step in which the tombstone append fails changes no room
FailedTombstoneChangesNothing ==
    \A t \in Tasks :
        (~TombstoneFailed(t) /\ TombstoneFailed(t)') => timeline' = timeline

\* C27: a replacement room has no event before the old room has the
\* tombstone that the same upgrade call sent and that names the replacement
\* room; when the tombstone append fails, the replacement room never gets an
\* event and the old room's events are as they were.
C27_TombstoneFirst ==
    []TombstoneBeforeReplacement /\ [][FailedTombstoneChangesNothing]_vars

\* two upgrades ran: the tombstone of one failed, the replacement room of the
\* other has events
C27_Witness ==
    \E t, u \in Tasks :
        /\ TombstoneFailed(t)
        /\ req[u].kind = "upgrade"
        /\ Timeline(NewRoomId(u)) # << >>
        /\ TombstonesOf(u) # {}

=============================================================================
